---- MODULE Spec2Model ----
(***************************************************************************)
(* Imperium intent-based controller: the Network Enforcer                  *)
(* (src/src/enforcement/network.py) driving the kernel traffic-control     *)
(* tree through the tc tool, and the intent pipeline that feeds it          *)
(* (src/src/intent_manager/parser.py, src/src/policy_engine/engine.py).    *)
(*                                                                         *)
(* The kernel side is a per-interface record: the HTB root, the class      *)
(* table, the ordered u32 filter list and the netem qdiscs.  Every tc      *)
(* invocation of the enforcer is an operator on that record which returns  *)
(* the new record and the exit code; an exit code is non-zero when the     *)
(* kernel refuses the command or when the tool itself fails (the set F of  *)
(* failing command kinds of the operation, an input of every action).      *)
(***************************************************************************)
EXTENDS Integers, Sequences, FiniteSets, TLC

VARIABLES
    constructed,       \* a NetworkEnforcer object exists (__init__ returned)
    kernel,            \* iface -> traffic-control state of the interface
    active_policies,   \* self._active_policies: device_id -> record
    lastOp,            \* the public operation that ran last, and its outcome
    clock,             \* time.time(): one tick per public operation
    intents,           \* IntentManager.intents: the intents stored so far
    response,          \* what the last submit_intent returned
    connected,         \* DeviceEnforcer.connected
    session,           \* the MQTT client holds a live session with the broker
    published,         \* the control messages the broker has received, in order
    devOp,             \* the DeviceEnforcer call that ran last, and its outcome
    engine,            \* the PolicyEngine: self.policies, and its last call
    threads,           \* per caller thread: the enforcer call it is in, and where
    lock,              \* NetworkEnforcer._lock: its holder, or "free"
    poll,              \* the metrics collector's cycle, and what its reads met
    registry,          \* DEVICE_REGISTRY while the startup scan fills it
    limiter,           \* the RateLimiter and the IPWhitelist of the API
    snapshot           \* a mapping a caller holds from get_active_policies()

\* The state of the Network Enforcer and its kernel
enforcerVars == <<constructed, kernel, active_policies>>
\* The intent store and the last response, and the policy engine behind it
\* The module-level registry, the API's rate limiter, and what a caller of
\* the enforcer holds
apiVars == <<registry, limiter, snapshot>>
\* The intent store and the API in front of it
storeVars == <<intents, response, engine, apiVars>>
\* The state of the Device Enforcer and its broker
mqttVars == <<connected, session, published, devOp>>
\* The threads that share the Network Enforcer
threadVars == <<threads, lock, poll>>

vars == <<enforcerVars, lastOp, clock, storeVars, mqttVars, threadVars>>

----------------------------------------------------------------------------
(* Bounds *)

MaxOps == 4            \* public operations (construction included) in a run
MaxSubmits == 2        \* directives submitted in a run of the pipeline
MaxDeviceOps == 2      \* policies handed to the Device Enforcer in a run
MaxCalls == 2          \* enforcer calls made by the caller threads in a run
MaxGenerates == 2      \* generate_policies calls on one engine
MaxRequests == 4       \* requests served by the rate-limited API
MaxTime == 3           \* seconds that go by while they are served

----------------------------------------------------------------------------
(* Device registry and defaults *)

\* Dotted-quad addresses as their four octets.
IpCam == <<10, 218, 189, 80>>
IpCo2 == <<10, 218, 189, 218>>
IpNode1 == <<10, 89, 0, 5>>

\* The bridge of the container network (the name discovery falls back to)
DOCKER_BRIDGE == "docker0"

\* The static seed, and the one simulator container found running at startup
DEVICE_REGISTRY ==
    [d \in {"esp32-cam-1", "esp32-mhz19-1", "esp32-audio-1", "node-1"} |->
        CASE d = "esp32-cam-1"   -> [ip |-> IpCam, classid |-> 10, iface |-> "wlan0"]
          [] d = "esp32-mhz19-1" -> [ip |-> IpCo2, classid |-> 20, iface |-> "wlan0"]
          [] d = "esp32-audio-1" -> [ip |-> IpCo2, classid |-> 20, iface |-> "wlan0"]
          [] d = "node-1"        -> [ip |-> IpNode1, classid |-> 31, iface |-> DOCKER_BRIDGE]]

\* Iteration order of the registry dict (insertion order).
RegistryOrder == <<"esp32-cam-1", "esp32-mhz19-1", "esp32-audio-1", "node-1">>

Registered == DOMAIN DEVICE_REGISTRY

DEFAULT_LINK_RATE == "50mbit"
DEFAULT_DEV_RATE  == "10mbit"
DEFAULT_DEV_CEIL  == "50mbit"
DEFAULT_BURST     == "32k"

PRIORITY_MAP(level) ==
    CASE level = "critical" -> 0
      [] level = "high"     -> 1
      [] level = "medium"   -> 4
      [] level = "low"      -> 7
      [] level = "default"  -> 4
      [] OTHER              -> 4

\* self._interfaces after __init__(interface="wlan0")
Interfaces == {DEVICE_REGISTRY[d].iface : d \in Registered} \cup {"wlan0"}

----------------------------------------------------------------------------
(* Dictionaries: functions over a finite set of keys *)

EmptyDict == [x \in {} |-> 0]

Has(dict, key) == key \in DOMAIN dict

\* dict.get(key, default)
Get(dict, key, default) == IF key \in DOMAIN dict THEN dict[key] ELSE default

\* dict.update(new): last writer wins per key
Update(old, new) ==
    [key \in DOMAIN old \cup DOMAIN new |->
        IF key \in DOMAIN new THEN new[key] ELSE old[key]]

\* dict.pop(key, None)
Pop(dict, key) == [x \in DOMAIN dict \ {key} |-> dict[x]]

----------------------------------------------------------------------------
(* The kernel's side of a tc invocation.  Each operator takes the state of *)
(* one interface and returns [k |-> new state, rc |-> exit code].          *)

FreshKernel == [root |-> FALSE, classes |-> EmptyDict, filters |-> <<>>, netem |-> {}]

\* The kernel stores, and "tc filter show" prints, the match as the 32-bit
\* big-endian value of the address (8 hex digits), never the dotted quad.
KMatchWord(ip) == ip[1] * 16777216 + ip[2] * 65536 + ip[3] * 256 + ip[4]

FilterMatches(k) == {k.filters[i].match : i \in DOMAIN k.filters}

BoundFilters(k, cid) == {i \in DOMAIN k.filters : k.filters[i].flowid = cid}

\* tc qdisc replace dev <iface> root handle 1: htb default 99
KQdiscReplaceRoot(k) ==
    IF k.root THEN [k |-> k, rc |-> 2]
    ELSE [k |-> [FreshKernel EXCEPT !.root = TRUE], rc |-> 0]

\* tc qdisc del dev <iface> root
KQdiscDelRoot(k) ==
    IF k.root THEN [k |-> FreshKernel, rc |-> 0] ELSE [k |-> k, rc |-> 2]

\* tc class add dev <iface> parent <parent> classid 1:<cid> htb rate .. ceil ..
KClassAdd(k, parent, cid, rate, ceil, burst, prio) ==
    IF k.root /\ (parent = 0 \/ parent \in DOMAIN k.classes) /\ cid \notin DOMAIN k.classes
    THEN [k |-> [k EXCEPT !.classes =
                    Update(@, [c \in {cid} |->
                        [rate |-> rate, ceil |-> ceil, burst |-> burst, prio |-> prio]])],
          rc |-> 0]
    ELSE [k |-> k, rc |-> 2]

\* tc class change dev <iface> parent 1:1 classid 1:<cid> htb rate .. ceil ..
KClassChange(k, cid, rate, ceil, burst, prio) ==
    IF k.root /\ cid \in DOMAIN k.classes
    THEN [k |-> [k EXCEPT !.classes[cid] =
                    [rate |-> rate, ceil |-> ceil, burst |-> burst, prio |-> prio]],
          rc |-> 0]
    ELSE [k |-> k, rc |-> 2]

\* tc class del dev <iface> parent 1:1 classid 1:<cid>
\* (refused while a filter is bound to the class; takes the leaf qdisc along)
KClassDel(k, cid) ==
    IF k.root /\ cid \in DOMAIN k.classes /\ BoundFilters(k, cid) = {}
    THEN [k |-> [k EXCEPT !.classes = Pop(@, cid),
                          !.netem = {q \in @ : q.parent # cid}],
          rc |-> 0]
    ELSE [k |-> k, rc |-> 2]

\* tc filter add dev <iface> protocol ip parent 1:0 prio 1 u32
\*    match ip dst <ip>/32 flowid 1:<cid>     (the kernel accepts duplicates)
KFilterAdd(k, ip, cid) ==
    IF k.root
    THEN [k |-> [k EXCEPT !.filters = Append(@, [match |-> KMatchWord(ip), flowid |-> cid])], rc |-> 0]
    ELSE [k |-> k, rc |-> 2]

\* tc filter del dev <iface> parent 1:0     (flushes every filter of the parent)
KFilterDel(k) ==
    IF k.root THEN [k |-> [k EXCEPT !.filters = <<>>], rc |-> 0]
    ELSE [k |-> k, rc |-> 2]

\* tc qdisc add dev <iface> parent 1:<cid> handle <cid>: netem delay <d> [j] [loss p]
KNetemAdd(k, cid, delay, jitter, loss) ==
    IF k.root /\ cid \in DOMAIN k.classes /\ {q \in k.netem : q.parent = cid} = {}
    THEN [k |-> [k EXCEPT !.netem = @ \cup
                    {[parent |-> cid, handle |-> cid, delay |-> delay,
                      jitter |-> jitter, loss |-> loss]}],
          rc |-> 0]
    ELSE [k |-> k, rc |-> 2]

\* tc qdisc del dev <iface> parent 1:<cid> handle <cid>:
KNetemDel(k, cid) ==
    IF \E q \in k.netem : q.parent = cid /\ q.handle = cid
    THEN [k |-> [k EXCEPT !.netem = {q \in @ : ~(q.parent = cid /\ q.handle = cid)}],
          rc |-> 0]
    ELSE [k |-> k, rc |-> 2]

----------------------------------------------------------------------------
(* The enforcer's tc helpers.  A run r = [k, raised, n, rc] threads the     *)
(* interface state k through the invocations of one operation: raised is   *)
(* set once _tc has thrown RuntimeError (every later step is skipped), n    *)
(* counts the state-changing tc invocations issued, rc is the exit code of *)
(* the last one, faulted tells that the tool itself failed an invocation.  *)

TcKinds == {"qdisc_replace", "qdisc_add", "qdisc_del", "class_add",
            "class_change", "class_del", "filter_add", "filter_del"}

\* The tool failures of one operation: none, or every invocation of one kind
\* among the kinds the operation can issue.
FaultSets(kinds) == {{}} \cup {{kind} : kind \in kinds}

BringUpKinds == {"qdisc_replace", "class_add", "class_change", "filter_add"}

ApplyKinds(ptype) ==
    IF ptype \in {"latency_control", "latency"}
    THEN BringUpKinds \cup {"qdisc_del", "qdisc_add"}
    ELSE BringUpKinds

ClearKinds == {"qdisc_del", "filter_del", "filter_add", "class_del"}

Start(k) == [k |-> k, raised |-> FALSE, n |-> 0, rc |-> 0, faulted |-> FALSE]

\* _tc(args, ok_fail): run the command; raise unless the exit code is 0 or
\* the failure is expected.  out is the kernel's answer to the command.
Tc(r, kind, out, ok_fail, F) ==
    IF r.raised THEN r
    ELSE LET fails == kind \in F \/ out.rc # 0
         IN  [k      |-> IF fails THEN r.k ELSE out.k,
              raised |-> fails /\ ~ok_fail,
              n      |-> r.n + 1,
              rc     |-> IF fails THEN 1 ELSE 0,
              faulted |-> r.faulted \/ kind \in F]

\* struct.unpack('!I', inet_aton(ip)) formatted '08x'
ip_to_hex(ip) == ((ip[1] * 256 + ip[2]) * 256 + ip[3]) * 256 + ip[4]

\* if rc != 0: class add under 1:1 (r is the run after class change)
add_unless_changed(r, cid, rate, ceil, burst, prio, F) ==
    IF r.rc # 0
    THEN Tc(r, "class_add", KClassAdd(r.k, 1, cid, rate, ceil, burst, prio), FALSE, F)
    ELSE r

replace_class(r, cid, rate, ceil, burst, prio, F) ==
    IF r.raised THEN r
    ELSE add_unless_changed(
             Tc(r, "class_change", KClassChange(r.k, cid, rate, ceil, burst, prio), TRUE, F),
             cid, rate, ceil, burst, prio, F)

ensure_class(r, cid, F) ==
    IF r.raised THEN r
    ELSE IF cid \in DOMAIN r.k.classes THEN r
    ELSE replace_class(r, cid, DEFAULT_DEV_RATE, DEFAULT_DEV_CEIL, DEFAULT_BURST, 4, F)

\* Mutant: the class is never deleted.
del_class_skipped(r, cid, F) == r

del_class(r, cid, F) ==
    IF r.raised THEN r ELSE Tc(r, "class_del", KClassDel(r.k, cid), TRUE, F)

\* Mutant: the filter is added without looking at the current filter list.
ensure_filter_unchecked(r, ip, cid, F) ==
    IF r.raised THEN r
    ELSE Tc(r, "filter_add", KFilterAdd(r.k, ip, cid), FALSE, F)

ensure_filter(r, ip, cid, F) ==
    IF r.raised THEN r
    ELSE IF ip_to_hex(ip) \in FilterMatches(r.k) THEN r
    ELSE Tc(r, "filter_add", KFilterAdd(r.k, ip, cid), FALSE, F)

del_netem(r, cid, F) ==
    IF r.raised THEN r ELSE Tc(r, "qdisc_del", KNetemDel(r.k, cid), TRUE, F)

\* The loop of _ensure_device_classes from registry position i on.
RECURSIVE ensure_device_classes_from(_, _, _, _, _)
ensure_device_classes_from(r, iface, i, seen_cids, F) ==
    IF i > Len(RegistryOrder) THEN r
    ELSE LET info == DEVICE_REGISTRY[RegistryOrder[i]]
             cid  == info.classid
         IN  IF info.iface # iface \/ cid \in seen_cids
             THEN ensure_device_classes_from(r, iface, i + 1, seen_cids, F)
             ELSE ensure_device_classes_from(
                      ensure_filter(ensure_class(r, cid, F), info.ip, cid, F),
                      iface, i + 1, seen_cids \cup {cid}, F)

ensure_device_classes(r, iface, F) == ensure_device_classes_from(r, iface, 1, {}, F)

\* qdisc replace root handle 1: htb default 99
replace_root(r, F) == Tc(r, "qdisc_replace", KQdiscReplaceRoot(r.k), TRUE, F)

\* class add parent 1: classid 1:1
add_link_class(r, F) ==
    Tc(r, "class_add",
       KClassAdd(r.k, 0, 1, DEFAULT_LINK_RATE, DEFAULT_LINK_RATE, "", 0), TRUE, F)

\* class add parent 1:1 classid 1:99
add_default_class(r, F) ==
    Tc(r, "class_add",
       KClassAdd(r.k, 1, 99, DEFAULT_DEV_RATE, DEFAULT_LINK_RATE, "", 0), TRUE, F)

ensure_root_qdisc(r, iface, F) ==
    IF r.raised THEN r
    ELSE IF r.k.root THEN ensure_device_classes(r, iface, F)
    ELSE ensure_device_classes(
             add_default_class(add_link_class(replace_root(r, F), F), F), iface, F)

\* The re-add loop of _del_filter from registry position i on.
RECURSIVE del_filter_readd(_, _, _, _, _, _)
del_filter_readd(r, ip, iface, i, active, F) ==
    IF i > Len(RegistryOrder) THEN r
    ELSE LET dev_id   == RegistryOrder[i]
             dev_info == DEVICE_REGISTRY[dev_id]
         IN  IF dev_info.ip = ip \/ dev_info.iface # iface \/ dev_id \notin DOMAIN active
             THEN del_filter_readd(r, ip, iface, i + 1, active, F)
             ELSE del_filter_readd(ensure_filter(r, dev_info.ip, dev_info.classid, F),
                                   ip, iface, i + 1, active, F)

del_filter(r, ip, iface, active, F) ==
    IF r.raised THEN r
    ELSE IF ip_to_hex(ip) \notin FilterMatches(r.k) THEN r
    ELSE del_filter_readd(Tc(r, "filter_del", KFilterDel(r.k), TRUE, F),
                          ip, iface, 1, active, F)

\* _resolve_device: the registry entry, or None
Resolves(target) == target \in Registered

\* Mutant: the record is overwritten, not merged.
record_overwrites(active, device_id, policy_type, params, now) ==
    Update(active, [d \in {device_id} |->
        [policy_type |-> policy_type, params |-> params, applied_at |-> now]])

\* _record: merge params into the device's record
record(active, device_id, policy_type, params, now) ==
    LET merged_params == IF device_id \in DOMAIN active
                         THEN active[device_id].params ELSE EmptyDict
    IN  Update(active, [d \in {device_id} |->
            [policy_type |-> policy_type,
             params      |-> Update(merged_params, params),
             applied_at  |-> now]])

----------------------------------------------------------------------------
(* Policies handed to apply_policy: the parameter maps the policy engine   *)
(* emits for the network plane, and one device-plane policy.               *)

BwParams2     == [rate |-> "2mbit", ceil |-> "2mbit", burst |-> "15k"]
LatParams50   == [delay |-> "50ms", jitter |-> "5ms"]
LatParams100  == [delay |-> "100ms", jitter |-> "10ms"]
ShapingParams == [class |-> "high_priority", rate |-> "100mbit",
                  ceil |-> "200mbit", burst |-> "32k"]
RoutingParams == [tos |-> "0x10", priority |-> "high"]
QosParams     == [mqtt_qos |-> 2, reliable_delivery |-> TRUE, retain |-> TRUE]

Policies ==
    << [policy_type |-> "bandwidth_limit",  parameters |-> BwParams2],
       [policy_type |-> "latency_control",  parameters |-> LatParams50],
       [policy_type |-> "latency",          parameters |-> LatParams100],
       [policy_type |-> "traffic_shaping",  parameters |-> ShapingParams],
       [policy_type |-> "routing_priority", parameters |-> RoutingParams],
       [policy_type |-> "qos_control",      parameters |-> QosParams] >>

Targets == {"esp32-cam-1", "esp32-mhz19-1", "esp32-audio-1", "esp32-nope-9"}

\* str.lower() on the priority levels and resolutions in use
lower(s) ==
    CASE s = "LOW" -> "low" [] s = "HIGH" -> "high" [] s = "SVGA" -> "svga" [] OTHER -> s

----------------------------------------------------------------------------
(* The three handlers.  Each returns the kernel and the active-policy map   *)
(* it leaves, whether RuntimeError escaped it, its return value when none   *)
(* did, and the number of state-changing tc invocations it issued.          *)

Returned(kern, active, ret) ==
    [kernel |-> kern, active |-> active, raised |-> FALSE, ret |-> ret, n |-> 0,
     faulted |-> FALSE]

\* Mutant: the root tree of the primary interface is brought up before the
\* target is looked up.
unresolved_after_bring_up(kern, active, F) ==
    LET r == ensure_root_qdisc(Start(kern["wlan0"]), "wlan0", F)
    IN  [kernel |-> [kern EXCEPT !["wlan0"] = r.k], active |-> active,
         raised |-> r.raised, ret |-> FALSE, n |-> r.n, faulted |-> r.faulted]

\* A handler whose target does not resolve returns False at once.
unresolved(kern, active, F) == Returned(kern, active, FALSE)

\* Mutant: the record is written before the tc commands have all succeeded.
Ran_records_first(kern, iface, r, active, recorded) ==
    [kernel |-> [kern EXCEPT ![iface] = r.k],
     active |-> recorded,
     raised |-> r.raised, ret |-> TRUE, n |-> r.n, faulted |-> r.faulted]

\* The end of a handler: _record and "return True" are reached only when no
\* tc invocation has raised.
Ran(kern, iface, r, active, recorded) ==
    [kernel |-> [kern EXCEPT ![iface] = r.k],
     active |-> IF r.raised THEN active ELSE recorded,
     raised |-> r.raised, ret |-> TRUE, n |-> r.n, faulted |-> r.faulted]

apply_bandwidth(kern, active, policy, target, F, now) ==
    IF ~Resolves(target) THEN unresolved(kern, active, F)
    ELSE LET info   == DEVICE_REGISTRY[target]
             cid    == info.classid
             iface  == info.iface
             params == policy.parameters
             rate   == Get(params, "rate", DEFAULT_DEV_RATE)
             ceil   == Get(params, "ceil", DEFAULT_DEV_CEIL)
             burst  == Get(params, "burst", DEFAULT_BURST)
             r1     == ensure_root_qdisc(Start(kern[iface]), iface, F)
             r2     == replace_class(r1, cid, rate, ceil, burst, 4, F)
             r3     == ensure_filter(r2, info.ip, cid, F)
         IN  Ran(kern, iface, r3, active,
                 record(active, target, "bandwidth_limit",
                        [rate |-> rate, ceil |-> ceil], now))

\* Mutant: the delay is read under the wrong key.
latency_delay_wrong_key(params) == Get(params, "netem_delay", "0ms")

\* delay = params.get("delay", params.get("netem_delay", "0ms"))
latency_delay(params) == Get(params, "delay", Get(params, "netem_delay", "0ms"))

\* qdisc add parent 1:<cid> handle <cid>: netem delay <delay> [<jitter>] [loss <loss>]
add_netem(r, cid, delay, jitter, loss, F) ==
    IF r.raised THEN r
    ELSE Tc(r, "qdisc_add",
            KNetemAdd(r.k, cid, delay,
                      IF jitter # "" /\ jitter # "0ms" THEN jitter ELSE "", loss),
            FALSE, F)

apply_latency(kern, active, policy, target, F, now) ==
    IF ~Resolves(target) THEN unresolved(kern, active, F)
    ELSE LET info   == DEVICE_REGISTRY[target]
             cid    == info.classid
             iface  == info.iface
             params == policy.parameters
             delay  == latency_delay(params)
             jitter == Get(params, "jitter", "0ms")
             loss   == Get(params, "loss", "")
             r1     == ensure_root_qdisc(Start(kern[iface]), iface, F)
             r2     == ensure_class(r1, cid, F)
             r3     == ensure_filter(r2, info.ip, cid, F)
             r4     == del_netem(r3, cid, F)
             r5     == add_netem(r4, cid, delay, jitter, loss, F)
         IN  Ran(kern, iface, r5, active,
                 record(active, target, "latency_control",
                        [delay |-> delay, jitter |-> jitter, loss |-> loss], now))

\* Mutant: the class is re-issued with the device defaults, whatever the record.
apply_priority_defaults(kern, active, policy, target, F, now) ==
    IF ~Resolves(target) THEN unresolved(kern, active, F)
    ELSE LET info   == DEVICE_REGISTRY[target]
             cid    == info.classid
             iface  == info.iface
             params == policy.parameters
             level  == Get(params, "priority", Get(params, "level", "medium"))
             prio   == PRIORITY_MAP(lower(level))
             rate   == Get(params, "rate", DEFAULT_DEV_RATE)
             ceil   == Get(params, "ceil", DEFAULT_DEV_CEIL)
             r1     == ensure_root_qdisc(Start(kern[iface]), iface, F)
             r2     == replace_class(r1, cid, rate, ceil, DEFAULT_BURST, prio, F)
             r3     == ensure_filter(r2, info.ip, cid, F)
         IN  Ran(kern, iface, r3, active,
                 record(active, target, "priority",
                        [priority |-> level, prio |-> prio, rate |-> rate, ceil |-> ceil],
                        now))

apply_priority(kern, active, policy, target, F, now) ==
    IF ~Resolves(target) THEN unresolved(kern, active, F)
    ELSE LET info   == DEVICE_REGISTRY[target]
             cid    == info.classid
             iface  == info.iface
             params == policy.parameters
             level  == Get(params, "priority", Get(params, "level", "medium"))
             prio   == PRIORITY_MAP(lower(level))
             existing_params == IF target \in DOMAIN active
                                THEN active[target].params ELSE EmptyDict
             rate   == Get(params, "rate", Get(existing_params, "rate", DEFAULT_DEV_RATE))
             ceil   == Get(params, "ceil", Get(existing_params, "ceil", DEFAULT_DEV_CEIL))
             r1     == ensure_root_qdisc(Start(kern[iface]), iface, F)
             r2     == replace_class(r1, cid, rate, ceil, DEFAULT_BURST, prio, F)
             r3     == ensure_filter(r2, info.ip, cid, F)
         IN  Ran(kern, iface, r3, active,
                 record(active, target, "priority",
                        [priority |-> level, prio |-> prio, rate |-> rate, ceil |-> ceil],
                        now))

\* Mutant: the final else branch falls into the priority handler.
dispatch_without_else(ptype) ==
    IF ptype \in {"bandwidth_limit", "bandwidth"} THEN "bandwidth"
    ELSE IF ptype \in {"latency_control", "latency"} THEN "latency"
    ELSE "priority"

\* The if/elif chain of apply_policy
dispatch(ptype) ==
    IF ptype \in {"bandwidth_limit", "bandwidth"} THEN "bandwidth"
    ELSE IF ptype \in {"latency_control", "latency"} THEN "latency"
    ELSE IF ptype \in {"traffic_shaping", "routing_priority", "priority"} THEN "priority"
    ELSE "unknown"

\* What apply_policy returns for the handler taken and its run h: an
\* exception becomes False.
caught(handler, h) ==
    [kernel |-> h.kernel, active |-> h.active,
     ret |-> IF h.raised THEN "False" ELSE IF h.ret THEN "True" ELSE "False",
     n |-> h.n, faulted |-> h.faulted,
     why |-> IF handler = "unknown" THEN "type_unknown"
             ELSE IF h.raised THEN "tc_failed"
             ELSE IF ~h.ret THEN "target_unknown" ELSE "ok"]

\* The handler's run
handle(handler, kern, active, policy, target, F, now) ==
    IF handler = "bandwidth" THEN apply_bandwidth(kern, active, policy, target, F, now)
    ELSE IF handler = "latency" THEN apply_latency(kern, active, policy, target, F, now)
    ELSE IF handler = "priority" THEN apply_priority(kern, active, policy, target, F, now)
    ELSE Returned(kern, active, FALSE)

\* apply_policy: dispatch on policy_type; any exception becomes False
apply_policy(kern, active, policy, target, F, now) ==
    caught(dispatch(policy.policy_type),
           handle(dispatch(policy.policy_type), kern, active, policy, target, F, now))

\* The end of clear_device: the record is dropped unless a tc command raised
cleared(kern, active, device_id, iface, r) ==
    [kernel |-> [kern EXCEPT ![iface] = r.k],
     active |-> IF r.raised THEN active ELSE Pop(active, device_id),
     ret |-> IF r.raised THEN "raised" ELSE "True",
     n |-> r.n, faulted |-> r.faulted,
     why |-> IF r.raised THEN "tc_failed" ELSE "ok"]

\* clear_device: no try/except around the tc calls
clear_device(kern, active, device_id, F) ==
    IF device_id \notin Registered
    THEN [kernel |-> kern, active |-> active, ret |-> "False", n |-> 0,
          faulted |-> FALSE, why |-> "target_unknown"]
    ELSE LET info  == DEVICE_REGISTRY[device_id]
             cid   == info.classid
             iface == info.iface
             r1    == del_netem(Start(kern[iface]), cid, F)
             r2    == del_filter(r1, info.ip, iface, active, F)
             r3    == del_class(r2, cid, F)
         IN  cleared(kern, active, device_id, iface, r3)

\* What clear_all leaves, given the run of qdisc del on each interface
all_cleared(runs) ==
    [kernel |-> [iface \in Interfaces |-> runs[iface].k],
     active |-> EmptyDict, ret |-> "True",
     n |-> Cardinality(Interfaces),
     faulted |-> \E iface \in Interfaces : runs[iface].faulted,
     why |-> "ok"]

\* clear_all: qdisc del root on every managed interface, then forget all
clear_all(kern, active, F) ==
    all_cleared([iface \in Interfaces |->
        Tc(Start(kern[iface]), "qdisc_del", KQdiscDelRoot(kern[iface]), TRUE, F)])

\* What __init__ leaves, given the run of _ensure_root_qdisc on each interface
brought_up(runs) ==
    [kernel |-> [iface \in Interfaces |-> runs[iface].k],
     active |-> EmptyDict,
     ret |-> IF \E iface \in Interfaces : runs[iface].raised THEN "raised" ELSE "True",
     n |-> runs["wlan0"].n + runs[DOCKER_BRIDGE].n,
     faulted |-> \E iface \in Interfaces : runs[iface].faulted,
     why |-> IF \E iface \in Interfaces : runs[iface].raised THEN "tc_failed" ELSE "ok"]

\* self._interfaces is list() of a set of names: either order can come out
InterfaceOrders == {<<"wlan0", DOCKER_BRIDGE>>, <<DOCKER_BRIDGE, "wlan0">>}

\* __init__: _ensure_root_qdisc on every managed interface in the order of
\* self._interfaces, nothing caught: an interface after the one where _tc
\* raised is not visited
construct(kern, F, order) ==
    LET first == ensure_root_qdisc(Start(kern[order[1]]), order[1], F)
    IN  brought_up([iface \in Interfaces |->
            IF iface = order[1] THEN first
            ELSE IF first.raised THEN Start(kern[iface])
            ELSE ensure_root_qdisc(Start(kern[iface]), iface, F)])

----------------------------------------------------------------------------
(* Directives.  The text of a directive is a sequence of pieces: a run of   *)
(* letters and digits that every pattern reads as a unit, a separator "-",  *)
(* or one blank " ".  A number written against its unit ("2mbit") is two    *)
(* pieces.  The pieces in use hold the literals of the pattern catalogue    *)
(* and the keywords of the type cascade only as whole pieces, so a literal  *)
(* is found in the text exactly where it is a piece; a word that holds a    *)
(* literal inside it is cut at the literal ("deactivate" is "de" followed  *)
(* by "activate").                                                          *)

Directives ==
    << <<"limit", " ", "bandwidth", " ", "to", " ", "2", "mbit", " ", "for", " ",
         "esp32", "-", "cam", "-", "1">>,
       <<"set", " ", "high", " ", "priority", " ", "for", " ",
         "esp32", "-", "cam", "-", "1">>,
       <<"limit", " ", "bandwidth", " ", "to", " ", "5", "mbps", " ", "for", " ",
         "esp32", "-", "mhz19", "-", "1">>,
       <<"prioritize", " ", "device", " ", "esp32", "-", "audio", "-", "1">>,
       <<"throttle", " ", "esp32", "-", "cam", "-", "1", " ", "to", " ", "5">>,
       <<"set", " ", "high", " ", "priority", " ", "for", " ", "node", "-", "3">>,
       <<"limit", " ", "bandwidth", " ", "for", " ", "esp32", "-", "cam", "-", "1">>,
       <<"allocate", " ", "5", "mbps", " ", "for", " ", "esp32", "-", "cam", "-", "1">>,
       <<"set", " ", "high", " ", "priority", " ", "for", " ",
         "esp32", "-", "nope", "-", "9">>,
       <<"set", " ", "high">>,
       <<"check", " ", "node", "-", "3">>,
       <<"improve", " ", "latency">>,
       <<"reduce", " ", "latency", " ", "to", " ", "50", "ms", " ", "for", " ",
         "esp32", "-", "mhz19", "-", "1">>,
       <<"add", " ", "latency", " ", "of", " ", "50", "ms", " ", "for", " ",
         "esp32", "-", "mhz19", "-", "1">>,
       <<"minimize", " ", "latency", " ", "for", " ", "esp32", "-", "cam", "-", "1">>,
       <<"set", " ", "qos", " ", "level", " ", "2", " ", "for", " ", "node", "-", "1">>,
       <<"set", " ", "qos", " ", "level", " ", "0", " ", "for", " ", "node", "-", "3">>,
       <<"set", " ", "qos", " ", "level", " ", "1", " ", "for", " ",
         "esp32", "-", "audio", "-", "1">>,
       <<"prioritize", " ", "device", " ", "node", "-", "1">>,
       <<"prioritize", " ", "device", " ", "node", "-", "3">>,
       <<"reset", " ", "esp32", "-", "mhz19", "-", "1">>,
       <<"enable", " ", "device", " ", "node", "-", "5">>,
       <<"disable", " ", "node", "-", "2">>,
       <<"de", "activate", " ", "node", "-", "2">>,
       <<"start", " ", "esp32", "-", "audio", "-", "1">>,
       <<"stop", " ", "esp32", "-", "audio", "-", "1">>,
       <<"activate", " ", "node", "-", "5">>,
       <<"limit", " ", "bandwidth", " ", "to", " ", "500", "kbit", " ", "for", " ",
         "esp32", "-", "audio", "-", "1">>,
       <<"limit", " ", "bandwidth", " ", "to", " ", "2", "mbit", " ", "for", " ",
         "esp32", "-", "audio", "-", "1", " ", "and", " ", "esp32", "-", "cam", "-", "1">>,
       <<"set", " ", "resolution", " ", "to", " ", "1080", "p", " ", "for", " ",
         "esp32", "-", "cam", "-", "1">>,
       <<"set", " ", "resolution", " ", "to", " ", "uxga", " ", "for", " ",
         "esp32", "-", "cam", "-", "1">>,
       <<"set", " ", "resolution", " ", "to", " ", "640", "x", "480", " ", "for", " ",
         "esp32", "-", "cam", "-", "1">>,
       <<"set", " ", "resolution", " ", "to", " ", "full", " ", "hd", " ", "for", " ",
         "esp32", "-", "cam", "-", "1">>,
       <<"set", " ", "camera", " ", "quality", " ", "to", " ", "70">>,
       <<"set", " ", "camera", " ", "quality", " ", "to", " ", "20", " ", "for", " ",
         "esp32", "-", "cam", "-", "1">>,
       <<"set", " ", "camera", " ", "to", " ", "high", " ", "quality">> >>

\* A group that took no part in the match
None == "<None>"

NumberPieces == {"0", "1", "2", "3", "5", "9", "20", "50", "70", "480", "500", "640", "1080"}

At(t, i) == IF i \in 1..Len(t) THEN t[i] ELSE ""

\* \s, \d+, \w+, [-_], [-\w], \S on a piece
IsSpace(p)    == p = " "
IsDigits(p)   == p \in NumberPieces
IsSep(p)      == p \in {"-", "_"}
\* The pieces that are not \w+, not [-\w]+, not \S+ ("" is the end of the text)
NotWordChars == {"", " ", "-"}
NotNameChars == {"", " "}
NotNonSpace  == {"", " "}
IsWordChars(p) == p \notin NotWordChars

Min(S) == CHOOSE x \in S : \A y \in S : x <= y
Max(S) == CHOOSE x \in S : \A y \in S : y <= x

\* The last piece of the longest run of pieces of one class that starts at i
\* (i - 1 when the piece at i is not of the class): a greedy X+ or X*.
RunEnd(t, i, excluded) ==
    Max({j \in (i - 1)..Len(t) : \A k \in i..j : t[k] \notin excluded})

WordEnd(t, i) == RunEnd(t, i, NotNonSpace)

RECURSIVE Join(_, _, _)
\* The text of pieces i..j
Join(t, i, j) == IF i > j THEN "" ELSE t[i] \o Join(t, i + 1, j)

\* The pieces at i.. are the literal lit
Lit(t, i, lit) == \A k \in 1..Len(lit) : At(t, i + k - 1) = lit[k]

NoMatch == [matched |-> FALSE, groups |-> <<>>]
Matched(groups) == [matched |-> TRUE, groups |-> groups]

\* re.search: the match at the leftmost position that has one; m[i] is the
\* pattern's match at position i
search(m) ==
    LET hits == {i \in DOMAIN m : m[i].matched}
    IN  IF hits = {} THEN NoMatch ELSE m[Min(hits)]

\* An optional word of a pattern: "(?:w\s+)?" for a literal w, "(?:\S+\s+)?"
AnyWord == "\\S+"
CanTake(t, j, opt) ==
    IF opt = AnyWord THEN WordEnd(t, j) >= j /\ At(t, WordEnd(t, j) + 1) = " "
    ELSE Lit(t, j, <<opt, " ">>)
AfterTaking(t, j, opt) == IF opt = AnyWord THEN WordEnd(t, j) + 2 ELSE j + 2

RECURSIVE DigitsAfter(_, _, _)
\* Where (\d+) matches after a chain of optional words starting at j, each
\* tried taken before skipped as the regex engine backtracks; 0 when nowhere.
DigitsAfter(t, j, opts) ==
    IF opts = <<>> THEN (IF IsDigits(At(t, j)) THEN j ELSE 0)
    ELSE LET taken == IF CanTake(t, j, Head(opts))
                      THEN DigitsAfter(t, AfterTaking(t, j, Head(opts)), Tail(opts))
                      ELSE 0
         IN  IF taken # 0 THEN taken ELSE DigitsAfter(t, j, Tail(opts))

\* \s*(mbps|kbps|gbps)? after the number at p
UnitAfter(t, p) ==
    LET q == IF At(t, p + 1) = " " THEN p + 2 ELSE p + 1
    IN  IF At(t, q) \in {"mbps", "kbps", "gbps"} THEN t[q] ELSE None

\* intent_patterns['priority']
\* prioritize\s+(?:device|node)\s+(\S+)
prioritize_device(t, i) ==
    IF /\ Lit(t, i, <<"prioritize", " ">>) /\ At(t, i + 2) \in {"device", "node"}
       /\ At(t, i + 3) = " " /\ WordEnd(t, i + 4) >= i + 4
    THEN Matched(<<Join(t, i + 4, WordEnd(t, i + 4))>>)
    ELSE NoMatch

\* high\s+priority\s+(?:for\s+)?(\S+)
high_priority_for(t, i) ==
    IF ~Lit(t, i, <<"high", " ", "priority", " ">>) THEN NoMatch
    ELSE LET j == IF Lit(t, i + 4, <<"for", " ">>) /\ WordEnd(t, i + 6) >= i + 6
                  THEN i + 6 ELSE i + 4
         IN  IF WordEnd(t, j) >= j THEN Matched(<<Join(t, j, WordEnd(t, j))>>)
             ELSE NoMatch

\* priority\s+(\d+)
priority_level(t, i) ==
    IF Lit(t, i, <<"priority", " ">>) /\ IsDigits(At(t, i + 2))
    THEN Matched(<<t[i + 2]>>) ELSE NoMatch

\* intent_patterns['bandwidth']
\* limit\s+bandwidth\s+(?:for\s+)?(?:\S+\s+)?(?:to\s+)?(\d+)\s*(mbps|kbps|gbps)?
limit_bandwidth(t, i) ==
    IF ~Lit(t, i, <<"limit", " ", "bandwidth", " ">>) THEN NoMatch
    ELSE LET p == DigitsAfter(t, i + 4, <<"for", AnyWord, "to">>)
         IN  IF p = 0 THEN NoMatch ELSE Matched(<<t[p], UnitAfter(t, p)>>)

\* bandwidth\s+(?:limit\s+)?(?:to\s+)?(\d+)\s*(mbps|kbps|gbps)?
bandwidth_to(t, i) ==
    IF ~Lit(t, i, <<"bandwidth", " ">>) THEN NoMatch
    ELSE LET p == DigitsAfter(t, i + 2, <<"limit", "to">>)
         IN  IF p = 0 THEN NoMatch ELSE Matched(<<t[p], UnitAfter(t, p)>>)

\* allocate\s+(\d+)\s*(mbps|kbps|gbps)?\s+(?:to|for)\s+(\S+)
allocate(t, i) ==
    IF ~(Lit(t, i, <<"allocate", " ">>) /\ IsDigits(At(t, i + 2))) THEN NoMatch
    ELSE LET p    == i + 2
             unit == UnitAfter(t, p)
             uat  == IF At(t, p + 1) = " " THEN p + 2 ELSE p + 1
             \* the blank that \s+ takes: after the unit when there is one
             \* followed by a blank, after the number otherwise
             withUnit == unit # None /\ At(t, uat + 1) = " "
             b    == IF withUnit THEN uat + 1 ELSE p + 1
         IN  IF /\ At(t, b) = " " /\ At(t, b + 1) \in {"to", "for"}
                /\ At(t, b + 2) = " " /\ WordEnd(t, b + 3) >= b + 3
             THEN Matched(<<t[p], IF withUnit THEN unit ELSE None,
                            Join(t, b + 3, WordEnd(t, b + 3))>>)
             ELSE NoMatch

\* throttle\s+(\S+)\s+(?:to\s+)?(\d+)
throttle(t, i) ==
    IF ~(Lit(t, i, <<"throttle", " ">>) /\ WordEnd(t, i + 2) >= i + 2) THEN NoMatch
    ELSE LET e == WordEnd(t, i + 2)
             p == IF At(t, e + 1) = " " THEN DigitsAfter(t, e + 2, <<"to">>) ELSE 0
         IN  IF p = 0 THEN NoMatch ELSE Matched(<<Join(t, i + 2, e), t[p]>>)

\* intent_patterns['latency']
\* reduce\s+latency\s+(?:to\s+)?(\d+)\s*ms
reduce_latency(t, i) ==
    IF ~Lit(t, i, <<"reduce", " ", "latency", " ">>) THEN NoMatch
    ELSE LET p == DigitsAfter(t, i + 4, <<"to">>)
         IN  IF p # 0 /\ At(t, IF At(t, p + 1) = " " THEN p + 2 ELSE p + 1) = "ms"
             THEN Matched(<<t[p]>>) ELSE NoMatch

\* minimize\s+latency\s+(?:for\s+)?(\S+)?
minimize_latency(t, i) ==
    IF ~Lit(t, i, <<"minimize", " ", "latency", " ">>) THEN NoMatch
    ELSE LET j == IF Lit(t, i + 4, <<"for", " ">>) THEN i + 6 ELSE i + 4
         IN  Matched(<<IF WordEnd(t, j) >= j THEN Join(t, j, WordEnd(t, j)) ELSE None>>)

\* intent_patterns['qos']
\* qos\s+(?:level\s+)?(\d+)
qos_level(t, i) ==
    IF ~Lit(t, i, <<"qos", " ">>) THEN NoMatch
    ELSE LET p == DigitsAfter(t, i + 2, <<"level">>)
         IN  IF p = 0 THEN NoMatch ELSE Matched(<<t[p]>>)

\* intent_patterns['device_control']: (?:<verb>|...)\s+(?:device\s+)?(\S+)
\* for the verbs of one pattern, each given as its pieces
device_command(t, i, verbs) ==
    LET at == {v \in verbs : Lit(t, i, v) /\ At(t, i + Len(v)) = " "}
        j  == i + Len(CHOOSE v \in at : TRUE) + 1
    IN  IF at = {} THEN NoMatch
        ELSE IF Lit(t, j, <<"device", " ">>) /\ WordEnd(t, j + 2) >= j + 2
        THEN Matched(<<Join(t, j + 2, WordEnd(t, j + 2))>>)
        ELSE IF WordEnd(t, j) >= j THEN Matched(<<Join(t, j, WordEnd(t, j))>>)
        ELSE NoMatch

\* intent_patterns['camera_resolution']
\* (?:set\s+)?(?:camera\s+)?resolution\s+(?:to\s+)?(\w+), at the piece
\* "resolution": the optional words before it take no part in the group
resolution_to(t, i) ==
    IF ~Lit(t, i, <<"resolution", " ">>) THEN NoMatch
    ELSE LET j == IF Lit(t, i + 2, <<"to", " ">>) /\ IsWordChars(At(t, i + 4))
                  THEN i + 4 ELSE i + 2
         IN  IF IsWordChars(At(t, j))
             THEN Matched(<<Join(t, j, RunEnd(t, j, NotWordChars))>>) ELSE NoMatch

\* (\d+x\d+)
width_by_height(t, i) ==
    IF IsDigits(At(t, i)) /\ At(t, i + 1) = "x" /\ IsDigits(At(t, i + 2))
    THEN Matched(<<Join(t, i, i + 2)>>) ELSE NoMatch

\* intent_patterns['camera_quality']
\* (?:set\s+)?(?:camera\s+)?(?:image\s+)?quality\s+(?:to\s+)?(\d+), at the
\* piece "quality"
quality_to(t, i) ==
    IF ~Lit(t, i, <<"quality", " ">>) THEN NoMatch
    ELSE LET p == DigitsAfter(t, i + 2, <<"to">>)
         IN  IF p = 0 THEN NoMatch ELSE Matched(<<t[p]>>)

\* (?:high|low|medium)\s+quality: a pattern without a group
preset_quality(t, i) ==
    IF At(t, i) \in {"high", "low", "medium"} /\ Lit(t, i + 1, <<" ", "quality">>)
    THEN Matched(<<>>) ELSE NoMatch

\* parsed['parameters'][param_name] = match.groups()
Put(params, param_name, m) ==
    IF m.matched THEN Update(params, [x \in {param_name} |-> m.groups]) ELSE params

\* The loop of parse over the catalogue, in the catalogue's order.  The
\* patterns of the other intent types need a literal that no piece in use
\* holds; they match no directive above and are left out.
catalogue(t) ==
    LET p1 == Put(EmptyDict, "device_id", search([i \in DOMAIN t |-> prioritize_device(t, i)]))
        p2 == Put(p1, "device_id", search([i \in DOMAIN t |-> high_priority_for(t, i)]))
        p3 == Put(p2, "priority_level", search([i \in DOMAIN t |-> priority_level(t, i)]))
        p4 == Put(p3, "bandwidth_limit", search([i \in DOMAIN t |-> limit_bandwidth(t, i)]))
        p5 == Put(p4, "bandwidth_limit", search([i \in DOMAIN t |-> bandwidth_to(t, i)]))
        p6 == Put(p5, "bandwidth_allocation", search([i \in DOMAIN t |-> allocate(t, i)]))
        p7 == Put(p6, "throttle", search([i \in DOMAIN t |-> throttle(t, i)]))
        p8 == Put(p7, "latency_target", search([i \in DOMAIN t |-> reduce_latency(t, i)]))
        p9 == Put(p8, "low_latency", search([i \in DOMAIN t |-> minimize_latency(t, i)]))
        p10 == Put(p9, "qos_level", search([i \in DOMAIN t |-> qos_level(t, i)]))
        p11 == Put(p10, "enable_device", search([i \in DOMAIN t |->
                   device_command(t, i, {<<"enable">>, <<"start">>, <<"activate">>})]))
        p12 == Put(p11, "disable_device", search([i \in DOMAIN t |->
                   device_command(t, i, {<<"disable">>, <<"stop">>, <<"de", "activate">>})]))
        p13 == Put(p12, "reset_device", search([i \in DOMAIN t |->
                   device_command(t, i, {<<"reset">>})]))
        p14 == Put(p13, "resolution_value", search([i \in DOMAIN t |-> resolution_to(t, i)]))
        p15 == Put(p14, "resolution_value", search([i \in DOMAIN t |-> width_by_height(t, i)]))
        p16 == Put(p15, "quality_value", search([i \in DOMAIN t |-> quality_to(t, i)]))
    IN  Put(p16, "quality_preset", search([i \in DOMAIN t |-> preset_quality(t, i)]))

\* Mutant: the group takes the whole name, "node" included.
device_or_node_whole(t, i) ==
    IF At(t, i) \notin {"device", "node"} \/ ~IsSep(At(t, i + 1)) THEN NoMatch
    ELSE Matched(<<Join(t, i, RunEnd(t, i, NotNameChars))>>)

\* (?:device|node)[-_]?(\w+)
device_or_node(t, i) ==
    IF At(t, i) \notin {"device", "node"} THEN NoMatch
    ELSE LET j == IF IsSep(At(t, i + 1)) /\ IsWordChars(At(t, i + 2)) THEN i + 2 ELSE i + 1
             e == RunEnd(t, j, NotWordChars)
         IN  IF e >= j THEN Matched(<<Join(t, j, e)>>) ELSE NoMatch

\* esp32[-_]?<family>[-_]?(\d*), and <family>[-_]?(\d*) when esp32 is ""
family_number(t, i, esp32, family) ==
    LET a == IF esp32 = "" THEN i
             ELSE IF At(t, i) # esp32 THEN 0
             ELSE IF IsSep(At(t, i + 1)) THEN i + 2 ELSE i + 1
    IN  IF a = 0 \/ At(t, a) # family THEN NoMatch
        ELSE LET d == IF IsSep(At(t, a + 1)) THEN a + 2 ELSE a + 1
             IN  Matched(<<IF IsDigits(At(t, d)) THEN t[d] ELSE "">>)

\* for\s+(esp32[-\w]*|node[-\w]*|\S+[-_]\d+)
for_target(t, i) ==
    IF ~Lit(t, i, <<"for", " ">>) THEN NoMatch
    ELSE LET j == i + 2
             e == WordEnd(t, j)
             tails == {k \in (j + 1)..(e - 1) : IsSep(t[k]) /\ IsDigits(t[k + 1])}
         IN  IF At(t, j) \in {"esp32", "node"}
             THEN Matched(<<Join(t, j, RunEnd(t, j, NotNameChars))>>)
             ELSE IF tails # {} THEN Matched(<<Join(t, j, Max(tails) + 1)>>)
             ELSE NoMatch

\* device_num = match.group(1) or default
OrDefault(group, default) == IF group = "" THEN default ELSE group

\* The target cascade of parse: each step that matches overwrites
\* target_device, except the last, which only fills it in.
target_device(t, params) ==
    LET device == search([i \in DOMAIN t |-> device_or_node(t, i)])
        audio  == search([i \in DOMAIN t |-> family_number(t, i, "esp32", "audio")])
        cam    == search([i \in DOMAIN t |-> family_number(t, i, "esp32", "cam")])
        mhz19  == search([i \in DOMAIN t |-> family_number(t, i, "esp32", "mhz19")])
        env    == search([i \in DOMAIN t |-> family_number(t, i, "esp32", "env")])
        plain  == search([i \in DOMAIN t |-> family_number(t, i, "", "mhz19")])
        for    == search([i \in DOMAIN t |-> for_target(t, i)])
        set(ps, value) == Update(ps, [x \in {"target_device"} |-> value])
        p1 == IF device.matched THEN set(params, device.groups[1]) ELSE params
        p2 == IF audio.matched
              THEN set(p1, "esp32-audio-" \o OrDefault(audio.groups[1], "1")) ELSE p1
        p3 == IF cam.matched
              THEN set(p2, "esp32-cam-" \o OrDefault(cam.groups[1], "1")) ELSE p2
        p4 == IF mhz19.matched
              THEN set(p3, "esp32-mhz19-" \o OrDefault(mhz19.groups[1], "1"))
              ELSE IF env.matched
              THEN set(p3, "esp32-env-" \o OrDefault(env.groups[1], "1"))
              ELSE IF plain.matched
              THEN set(p3, "mhz19-" \o OrDefault(plain.groups[1], "01"))
              ELSE p3
    IN  IF for.matched /\ ~Has(p4, "target_device") THEN set(p4, for.groups[1]) ELSE p4

\* "phrase in intent_description" for a phrase given as pieces
Says(t, phrase) == \E i \in 1..Len(t) : Lit(t, i, phrase)
SaysAny(t, phrases) == \E phrase \in phrases : Says(t, phrase)

determine_type(t) ==
    LET cam == SaysAny(t, {<<"camera">>, <<"cam">>})
    IN  IF SaysAny(t, {<<"resolution">>, <<"qvga">>, <<"vga">>, <<"svga">>, <<"xga">>,
                       <<"hd">>, <<"sxga">>, <<"uxga">>})
            THEN "camera_resolution"
        ELSE IF Says(t, <<"brightness">>) /\ cam THEN "camera_brightness"
        ELSE IF SaysAny(t, {<<"frame", " ", "rate">>, <<"fps">>,
                            <<"capture", " ", "interval">>, <<"capture", " ", "every">>})
            THEN "camera_framerate"
        ELSE IF \/ Says(t, <<"quality">>) /\ cam
                \/ SaysAny(t, {<<"jpeg", " ", "quality">>, <<"image", " ", "quality">>})
            THEN "camera_quality"
        ELSE IF cam /\ SaysAny(t, {<<"enable">>, <<"disable">>, <<"start">>, <<"stop">>,
                                   <<"pause">>, <<"resume">>})
            THEN "camera_control"
        ELSE IF /\ SaysAny(t, {<<"mhz19">>, <<"co2">>, <<"carbon", " ", "dioxide">>,
                               <<"environmental">>, <<"esp32", "-", "env">>})
                /\ SaysAny(t, {<<"sampling">>, <<"interval">>, <<"rate">>, <<"every">>})
            THEN "sampling_interval"
        ELSE IF Says(t, <<"seconds">>) /\ Says(t, <<"sampling">>) THEN "sampling_interval"
        ELSE IF SaysAny(t, {<<"sample", " ", "rate">>, <<"sampling">>,
                            <<"audio", " ", "rate">>, <<"khz">>, <<" ", "hz">>})
            THEN "sample_rate"
        ELSE IF SaysAny(t, {<<"gain">>, <<"amplify">>, <<"boost">>,
                            <<"audio", " ", "volume">>, <<"audio", " ", "level">>})
            THEN "audio_gain"
        ELSE IF SaysAny(t, {<<"publish", " ", "interval">>, <<"telemetry", " ", "rate">>,
                            <<"telemetry">>, <<"reporting">>, <<"send", " ", "data">>,
                            <<"report", " ", "every">>, <<"report", " ", "telemetry">>})
            THEN "publish_interval"
        ELSE IF SaysAny(t, {<<"enable">>, <<"disable">>, <<"start">>, <<"stop">>,
                            <<"activate">>, <<"de", "activate">>, <<"reset">>})
            THEN "device_control"
        ELSE IF SaysAny(t, {<<"priority">>, <<"prioritize">>, <<"critical">>})
            THEN "priority"
        ELSE IF SaysAny(t, {<<"bandwidth">>, <<"throttle">>, <<"limit">>}) THEN "bandwidth"
        ELSE IF SaysAny(t, {<<"latency">>, <<"delay">>, <<"response">>}) THEN "latency"
        ELSE IF SaysAny(t, {<<"qos">>, <<"quality", " ", "of", " ", "service">>,
                            <<"reliable", " ", "delivery">>})
            THEN "qos"
        ELSE "general"

parse(t) == [type |-> determine_type(t), parameters |-> target_device(t, catalogue(t))]

\* validate: a type and at least one parameter
validate(parsed) ==
    IF parsed.type = "" THEN [ok |-> FALSE, msg |-> "Unable to determine intent type"]
    ELSE IF parsed.parameters = EmptyDict
    THEN [ok |-> FALSE, msg |-> "No actionable parameters extracted"]
    ELSE [ok |-> TRUE, msg |-> "Valid"]

----------------------------------------------------------------------------
(* Policy engine: the generators of the intent types above.                 *)
(* A value that a policy carries either as text or as a number (mqtt_qos)   *)
(* keeps its Python type: [str |-> "2"] is '2' and [int |-> 2] is 2, and    *)
(* the two are never equal.  The other numbers are plain.                   *)

\* int(v) for a text or a number
int(v) ==
    IF "int" \in DOMAIN v THEN v
    ELSE [int |-> CASE v.str = "0" -> 0 [] v.str = "1" -> 1 [] v.str = "2" -> 2
                    [] v.str = "3" -> 3 [] v.str = "5" -> 5 [] v.str = "9" -> 9
                    [] v.str = "50" -> 50 [] v.str = "500" -> 500
                    [] v.str = "20" -> 20 [] v.str = "70" -> 70
                    [] v.str = "10" -> 10 [] v.str = "60" -> 60 [] v.str = "61" -> 61
                    [] v.str = "5000" -> 5000 [] v.str = "60000" -> 60000
                    [] v.str = "60001" -> 60001]

\* unit.replace('bps', 'bit') if unit.endswith('bps') else unit
bps_to_bit(unit) ==
    CASE unit = "mbps" -> "mbit" [] unit = "kbps" -> "kbit" [] unit = "gbps" -> "gbit"
      [] OTHER -> unit

\* Mutant: the routing policy is made first.
generate_priority_policies_routing_first(params) ==
    LET target == Get(params, "target_device", Get(params, "device_id", <<"unknown">>)[1])
    IN  << [policy_type |-> "routing_priority", target |-> target,
            parameters |-> RoutingParams, priority |-> 8],
           [policy_type |-> "traffic_shaping", target |-> target,
            parameters |-> ShapingParams, priority |-> 9] >>

generate_priority_policies(params) ==
    LET target == Get(params, "target_device", Get(params, "device_id", <<"unknown">>)[1])
    IN  << [policy_type |-> "traffic_shaping", target |-> target,
            parameters |-> ShapingParams, priority |-> 9],
           [policy_type |-> "routing_priority", target |-> target,
            parameters |-> RoutingParams, priority |-> 8] >>

generate_bandwidth_policies(params) ==
    LET target == Get(params, "target_device", "all")
        limit  == IF Has(params, "bandwidth_limit")
                  THEN LET g    == params["bandwidth_limit"]
                           unit == IF Len(g) > 1 /\ g[2] # None THEN g[2] ELSE "mbit"
                       IN  g[1] \o bps_to_bit(unit)
                  ELSE IF Has(params, "throttle")
                  THEN params["throttle"][2] \o "mbit"
                  ELSE None
    IN  IF limit = None THEN <<>>
        ELSE << [policy_type |-> "bandwidth_limit", target |-> target,
                 parameters |-> [rate |-> limit, ceil |-> limit, burst |-> "15k"],
                 priority |-> 7] >>

generate_latency_policies(params) ==
    LET target == Get(params, "target_device", "all")
        ms(n) == ToString(n) \o "ms"
    IN  IF Has(params, "latency_inject")
        THEN << [policy_type |-> "latency_control", target |-> target,
                 parameters |->
                     [delay  |-> ms(int([str |-> params["latency_inject"][1]]).int),
                      jitter |-> ms(Max({1, int([str |-> params["latency_inject"][1]]).int
                                            \div 10}))],
                 priority |-> 8] >>
        ELSE << [policy_type |-> "traffic_shaping", target |-> target,
                 parameters |-> [class |-> "low_latency", netem_delay |-> "0ms",
                                 priority |-> "express", queue |-> "fq_codel"],
                 priority |-> 9] >>

\* qos_level is the captured text, or the number 1 when nothing was captured
generate_qos_policies(params) ==
    LET qos == IF Has(params, "qos_level")
               THEN [str |-> params["qos_level"][1]] ELSE [int |-> 1]
    IN  << [policy_type |-> "qos_control", target |-> Get(params, "target_device", "all"),
            parameters |-> [mqtt_qos |-> qos,
                            reliable_delivery |-> qos \in {[int |-> 1], [int |-> 2]},
                            retain |-> TRUE],
            priority |-> 6] >>

generate_device_control_policies(params) ==
    LET made(command, target) ==
            << [policy_type |-> "device_control", target |-> target,
                parameters |-> [command |-> command], priority |-> 8] >>
    IN  IF Has(params, "enable_device") THEN made("ENABLE", params["enable_device"][1])
        ELSE IF Has(params, "disable_device") THEN made("DISABLE", params["disable_device"][1])
        ELSE IF Has(params, "reset_device") THEN made("RESET", params["reset_device"][1])
        ELSE made("ENABLE", Get(params, "target_device", "unknown"))

\* Mutant: a value of 60 is not taken as seconds.
generate_publish_interval_policies_below_60(params) ==
    LET interval_value == int([str |-> Get(params, "interval_value", <<"10">>)[1]]).int
        interval_ms == IF interval_value < 60 THEN interval_value * 1000
                       ELSE interval_value
    IN  << [policy_type |-> "publish_interval",
            target |-> Get(params, "target_device", "esp32-audio-1"),
            parameters |-> [interval_ms |-> Max({1000, Min({60000, interval_ms})}),
                            command |-> "SET_PUBLISH_INTERVAL"],
            priority |-> 5] >>

\* int(interval_value), times 1000 when at most 60, then
\* max(1000, min(60000, interval_ms))
generate_publish_interval_policies(params) ==
    LET interval_value == int([str |-> Get(params, "interval_value", <<"10">>)[1]]).int
        interval_ms == IF interval_value <= 60 THEN interval_value * 1000
                       ELSE interval_value
    IN  << [policy_type |-> "publish_interval",
            target |-> Get(params, "target_device", "esp32-audio-1"),
            parameters |-> [interval_ms |-> Max({1000, Min({60000, interval_ms})}),
                            command |-> "SET_PUBLISH_INTERVAL"],
            priority |-> 5] >>

\* str.upper() on the texts in use
upper(text) ==
    CASE text = "1080p" -> "1080P" [] text = "full" -> "FULL" [] text = "uxga" -> "UXGA"
      [] text = "640x480" -> "640X480" [] text = "svga" -> "SVGA"

\* resolution_map of _generate_camera_resolution_policies
resolution_map ==
    [key \in {"qvga", "320x240", "vga", "640x480", "svga", "800x600", "xga", "1024x768",
              "hd", "1280x720", "sxga", "1280x1024", "uxga", "1600x1200"} |->
        CASE key \in {"qvga", "320x240"} -> "QVGA" [] key \in {"vga", "640x480"} -> "VGA"
          [] key \in {"svga", "800x600"} -> "SVGA" [] key \in {"xga", "1024x768"} -> "XGA"
          [] key \in {"hd", "1280x720"} -> "HD" [] key \in {"sxga", "1280x1024"} -> "SXGA"
          [] key \in {"uxga", "1600x1200"} -> "UXGA"]

\* Mutant: the pixel heights of the Device Enforcer's table are known here too.
generate_camera_resolution_policies_with_heights(params) ==
    LET value == IF Get(params, "resolution_value", <<>>) # <<>>
                 THEN params["resolution_value"][1] ELSE "SVGA"
    IN  << [policy_type |-> "camera_resolution",
            target |-> Get(params, "target_device", "esp32-cam-1"),
            parameters |->
                [resolution |-> IF value = "1080p" THEN "UXGA"
                                ELSE IF Has(resolution_map, lower(value))
                                THEN resolution_map[lower(value)] ELSE upper(value),
                 command |-> "SET_RESOLUTION"],
            priority |-> 5] >>

generate_camera_resolution_policies(params) ==
    LET value == IF Get(params, "resolution_value", <<>>) # <<>>
                 THEN params["resolution_value"][1] ELSE "SVGA"
    IN  << [policy_type |-> "camera_resolution",
            target |-> Get(params, "target_device", "esp32-cam-1"),
            parameters |->
                [resolution |-> IF Has(resolution_map, lower(value))
                                THEN resolution_map[lower(value)] ELSE upper(value),
                 command |-> "SET_RESOLUTION"],
            priority |-> 5] >>

\* params['quality_preset'][0] on a match that captured no group: IndexError
raises(parsed) ==
    /\ parsed.type = "camera_quality"
    /\ Has(parsed.parameters, "quality_preset")
    /\ parsed.parameters["quality_preset"] = <<>>

\* max(0, min(63, int(quality_value))); params['quality_preset'][0] needs a
\* captured group (raises tells when there is none)
generate_camera_quality_policies(params) ==
    LET quality_map == [high |-> 5, medium |-> 15, low |-> 30]
        quality_value ==
            IF Has(params, "quality_preset")
            THEN Get(quality_map, lower(params["quality_preset"][1]), 10)
            ELSE IF Get(params, "quality_value", <<>>) # <<>>
            THEN int([str |-> params["quality_value"][1]]).int
            ELSE 10
    IN  << [policy_type |-> "camera_quality",
            target |-> Get(params, "target_device", "esp32-cam-1"),
            parameters |-> [quality |-> Max({0, Min({63, quality_value})}),
                            command |-> "SET_QUALITY"],
            priority |-> 5] >>

\* generate_policies: the branch of the intent's type (a directive above has
\* type priority, bandwidth, latency, qos, device_control, camera_resolution,
\* camera_quality or general; the engine is also handed publish_interval
\* intents)
generate_policies(parsed) ==
    IF parsed.type = "priority" THEN generate_priority_policies(parsed.parameters)
    ELSE IF parsed.type = "bandwidth" THEN generate_bandwidth_policies(parsed.parameters)
    ELSE IF parsed.type = "latency" THEN generate_latency_policies(parsed.parameters)
    ELSE IF parsed.type = "qos" THEN generate_qos_policies(parsed.parameters)
    ELSE IF parsed.type = "device_control"
    THEN generate_device_control_policies(parsed.parameters)
    ELSE IF parsed.type = "publish_interval"
    THEN generate_publish_interval_policies(parsed.parameters)
    ELSE IF parsed.type = "camera_resolution"
    THEN generate_camera_resolution_policies(parsed.parameters)
    ELSE IF parsed.type = "camera_quality"
    THEN generate_camera_quality_policies(parsed.parameters)
    ELSE <<>>

----------------------------------------------------------------------------
(* The Device Enforcer (src/src/enforcement/device.py).  dev is its state:  *)
(* the connected flag, whether the MQTT client holds a live session, and    *)
(* the messages the broker has received.                                    *)

\* The words among esp32, mhz19, env that target.lower() contains, for the
\* targets in use
Mentions(target) ==
    (IF target \in {"esp32-mhz19-1", "esp32-env-1", "esp32-cam-1", "esp32-audio-1",
                    "esp32-nope-9"} THEN {"esp32"} ELSE {})
    \cup (IF target \in {"esp32-mhz19-1", "mhz19-01"} THEN {"mhz19"} ELSE {})
    \cup (IF target = "esp32-env-1" THEN {"env"} ELSE {})

MessageTypes == {"qos_control", "device_config", "sample_rate", "sampling_interval",
                 "device_control", "publish_interval", "audio_gain"}

CameraTypes == {"camera_resolution", "camera_quality", "camera_brightness",
                "camera_framerate", "camera_control"}

\* The control_message of the handlers that go through _send_control_message
control_message(policy) ==
    LET target == policy.target
        params == policy.parameters
        ptype  == policy.policy_type
    IN  CASE ptype = "qos_control" ->
               IF "esp32" \in Mentions(target)
               THEN [command |-> "SET_QOS", qos |-> int(Get(params, "mqtt_qos", [int |-> 1]))]
               ELSE [type |-> "qos_update", qos |-> Get(params, "mqtt_qos", [int |-> 0]),
                     reliable_delivery |-> Get(params, "reliable_delivery", FALSE)]
          [] ptype = "sample_rate" ->
               [command |-> "SET_SAMPLE_RATE", sample_rate |-> Get(params, "sample_rate", 16000)]
          [] ptype = "sampling_interval" ->
               IF Mentions(target) \cap {"esp32", "mhz19"} # {}
               THEN [command |-> "SET_PUBLISH_INTERVAL",
                     interval_ms |-> Get(params, "interval_seconds", 10) * 1000]
               ELSE [command |-> "SET_SAMPLING_INTERVAL",
                     interval_seconds |-> Get(params, "interval_seconds", 10)]
          [] ptype = "device_control" ->
               [command |-> Get(params, "command", "ENABLE")]
          [] ptype = "publish_interval" ->
               [command |-> "SET_PUBLISH_INTERVAL",
                interval_ms |-> Get(params, "interval_ms", 10000)]
          [] ptype = "audio_gain" ->
               [command |-> "SET_AUDIO_GAIN", gain |-> Get(params, "gain", 1)]
          [] ptype = "device_config" ->
               [type |-> "config_update", sampling_rate |-> Get(params, "sampling_rate", None),
                enabled |-> Get(params, "enabled", TRUE),
                priority |-> Get(params, "priority", "normal")]

\* The control dict of _apply_camera_policy (policy-engine and parsed keys)
camera_control(policy) ==
    LET params == policy.parameters
        ptype  == policy.policy_type
        clamp(lo, x, hi) == IF x < lo THEN lo ELSE IF x > hi THEN hi ELSE x
        raw == IF Get(params, "resolution_value", "") # ""
               THEN params["resolution_value"] ELSE Get(params, "resolution", "")
    IN  CASE ptype = "camera_resolution" ->
               [resolution |->
                   CASE raw = "" -> "SVGA"
                     [] raw \in {"qvga", "QVGA", "240p"} -> "QVGA"
                     [] raw \in {"vga", "VGA", "480p"} -> "VGA"
                     [] raw \in {"svga", "SVGA", "600p"} -> "SVGA"
                     [] raw \in {"xga", "XGA", "768p"} -> "XGA"
                     [] raw \in {"hd", "HD", "720p"} -> "HD"
                     [] raw \in {"sxga", "SXGA", "960p"} -> "SXGA"
                     [] raw \in {"uxga", "UXGA", "1080p", "1080P", "full hd"} -> "UXGA"
                     [] raw \in {"full", "FULL"} -> "FULL"]
          [] ptype = "camera_quality" ->
               [quality |->
                   IF Has(params, "quality_preset")
                   THEN CASE params["quality_preset"] = "high" -> 5
                          [] params["quality_preset"] = "low" -> 35
                          [] OTHER -> 15
                   ELSE IF Has(params, "quality") THEN clamp(0, params["quality"], 63)
                   ELSE clamp(0, Get(params, "quality_value", 15), 63)]
          [] ptype = "camera_brightness" ->
               [brightness |->
                   clamp(-2, Get(params, "brightness_value", Get(params, "brightness", 0)), 2)]
          [] ptype = "camera_framerate" ->
               [capture_interval_ms |->
                   IF Has(params, "capture_interval_ms") THEN params["capture_interval_ms"]
                   ELSE IF Has(params, "framerate_value")
                   THEN IF params["framerate_value"] > 0
                        THEN Max({33, 1000 \div params["framerate_value"]}) ELSE 1000
                   ELSE Get(params, "capture_interval", 1000)]
          [] ptype = "camera_control" ->
               [enabled |->
                   IF Has(params, "enabled") THEN params["enabled"]
                   ELSE Get(params, "enable_camera", Get(params, "camera_action", ""))
                            \in {"enable", "resume"}]
          [] OTHER -> EmptyDict

\* The topic _send_control_message routes a target to
control_topic(target) ==
    IF Mentions(target) \cap {"mhz19", "env"} # {}
    THEN "imperium/devices/" \o target \o "/control"
    ELSE "iot/" \o target \o "/control"

\* client.publish(topic, payload, qos=1): the broker receives the message and
\* the client answers MQTT_ERR_SUCCESS when the session is live and the client
\* takes the message (fault: it does not); otherwise nothing is handed over.
publish(dev, topic, payload, fault) ==
    IF dev.session /\ ~fault
    THEN [rc |-> "MQTT_ERR_SUCCESS",
          published |-> Append(dev.published,
              [topic |-> topic, payload |-> payload, qos |-> 1, retain |-> FALSE])]
    ELSE [rc |-> IF dev.session THEN "MQTT_ERR_QUEUE_SIZE" ELSE "MQTT_ERR_NO_CONN",
          published |-> dev.published]

\* record_device_enforcement(policy_type, device, success): the increment
\* of ibs_device_enforcement_total, as the label set that is incremented
record_device_enforcement(policy_type, device, success) ==
    [policy_type |-> policy_type, device |-> device,
     status |-> IF success THEN "success" ELSE "failure"]

\* A return of False on which nothing is published and nothing counted
Refused(dev) == [ret |-> FALSE, published |-> dev.published, counted |-> <<>>]

\* Mutant: result.rc is not looked at.
delivered_unchecked(p, ptype, target) ==
    [ret |-> TRUE, published |-> p.published,
     counted |-> <<record_device_enforcement(ptype, target, TRUE)>>]

\* if result.rc == MQTT_ERR_SUCCESS: count a success and return True, else
\* count a failure and return False; ptype is the label the caller passes
delivered(p, ptype, target) ==
    [ret |-> p.rc = "MQTT_ERR_SUCCESS", published |-> p.published,
     counted |-> <<record_device_enforcement(ptype, target, p.rc = "MQTT_ERR_SUCCESS")>>]

\* message.get('command', message.get('type', 'unknown'))
inferred_type(message) == Get(message, "command", Get(message, "type", "unknown"))

\* Mutant: every target is routed to iot/.
send_control_message_iot(dev, target, message, fault) ==
    IF ~dev.connected THEN Refused(dev)
    ELSE delivered(publish(dev, "iot/" \o target \o "/control", message, fault),
                   inferred_type(message), target)

send_control_message(dev, target, message, fault) ==
    IF ~dev.connected THEN Refused(dev)
    ELSE delivered(publish(dev, control_topic(target), message, fault),
                   inferred_type(message), target)

\* DeviceEnforcer.apply_policy: the handler of the policy's type
device_apply_policy(dev, policy, fault) ==
    IF policy.policy_type \in MessageTypes
    THEN send_control_message(dev, policy.target, control_message(policy), fault)
    ELSE IF policy.policy_type \in CameraTypes
    THEN IF camera_control(policy) = EmptyDict THEN Refused(dev)
         ELSE delivered(publish(dev, "iot/" \o policy.target \o "/control",
                                camera_control(policy), fault),
                        policy.policy_type, policy.target)
    ELSE Refused(dev)

\* Policies handed to the Device Enforcer: one per type it handles, with the
\* parameters the policy engine emits, and one network-plane policy.
DevicePolicies ==
    << [policy_type |-> "qos_control",
        parameters |-> [mqtt_qos |-> [int |-> 2], reliable_delivery |-> TRUE, retain |-> TRUE]],
       [policy_type |-> "device_config",
        parameters |-> [sampling_rate |-> 5, enabled |-> TRUE, priority |-> "high"]],
       [policy_type |-> "sample_rate",       parameters |-> [sample_rate |-> 16000]],
       [policy_type |-> "sampling_interval", parameters |-> [interval_seconds |-> 30]],
       [policy_type |-> "device_control",    parameters |-> [command |-> "RESET"]],
       [policy_type |-> "publish_interval",  parameters |-> [interval_ms |-> 5000]],
       [policy_type |-> "audio_gain",        parameters |-> [gain |-> 2]],
       [policy_type |-> "camera_resolution", parameters |-> [resolution |-> "UXGA"]],
       [policy_type |-> "camera_quality",    parameters |-> [quality |-> 70]],
       [policy_type |-> "camera_brightness", parameters |-> [brightness |-> 1]],
       [policy_type |-> "camera_framerate",  parameters |-> [capture_interval_ms |-> 200]],
       [policy_type |-> "camera_control",    parameters |-> [enabled |-> FALSE]],
       [policy_type |-> "bandwidth_limit",   parameters |-> BwParams2] >>

DeviceTargets == {"esp32-mhz19-1", "esp32-env-1", "mhz19-01", "node-1", "esp32-cam-1"}

----------------------------------------------------------------------------
(* The intent manager (src/src/intent_manager/api.py) and the dispatcher    *)
(* that hands the policies of an accepted intent to the two enforcers.      *)

\* The end of submit_intent: the intent is appended to the store and returned
accepted(held, intent) == [response |-> intent, intents |-> Append(held, intent)]

\* submit_intent from the parsed intent on; an exception of generate_policies
\* leaves it before the intent is stored
submit_parsed(held, t, parsed) ==
    IF ~validate(parsed).ok
    THEN [response |-> [status |-> "invalid", error |-> validate(parsed).msg],
          intents |-> held]
    ELSE IF raises(parsed)
    THEN [response |-> [status |-> "raised", error |-> "IndexError"], intents |-> held]
    ELSE accepted(held, [status |-> "active", description |-> t, type |-> parsed.type,
                         parameters |-> EmptyDict, parsed |-> parsed,
                         policies |-> generate_policies(parsed)])

submit_intent(held, t) == submit_parsed(held, t, parse(t))

\* self.parser.parse(description) for each directive of the model
Parsed == [d \in DOMAIN Directives |-> parse(Directives[d])]

\* The dispatcher's state after one more apply on the network plane
applied(st, out) ==
    [st EXCEPT !.kernel = out.kernel, !.active = out.active,
               !.ok = @ /\ out.ret = "True", !.n = @ + out.n]

\* The dispatcher's state after one more apply on the device plane
sent(st, out) == [st EXCEPT !.published = out.published, !.ok = @ /\ out.ret]

RECURSIVE enforce(_, _, _, _)
\* The dispatcher: the policies of one directive, in list order, each handed
\* to the enforcer of its plane; st is the state of the two enforcers so far
\* and whether every apply so far returned True.
enforce(st, policies, i, now) ==
    IF i > Len(policies) THEN st
    ELSE IF dispatch(policies[i].policy_type) = "unknown"
         THEN enforce(sent(st, device_apply_policy(st, policies[i], FALSE)),
                      policies, i + 1, now)
    ELSE enforce(applied(st, apply_policy(st.kernel, st.active, policies[i],
                                          policies[i].target, {}, now)),
                 policies, i + 1, now)

\* What a directive leaves once its policies have been handed out
enforced(st) ==
    [kernel |-> st.kernel, active |-> st.active, published |-> st.published,
     ret |-> IF st.ok THEN "True" ELSE "False", n |-> st.n,
     faulted |-> FALSE, why |-> IF st.ok THEN "ok" ELSE "apply_failed"]

\* What follows submit_intent: nothing for a rejected directive, the
\* dispatcher for a stored intent
dispatched(st, answer, now) ==
    IF answer.status \in {"invalid", "raised"}
    THEN [kernel |-> st.kernel, active |-> st.active, published |-> st.published,
          ret |-> "False", n |-> 0, faulted |-> FALSE, why |-> answer.status]
    ELSE enforced(enforce(st, answer.policies, 1, now))

----------------------------------------------------------------------------
(* The policy engine as an object (src/src/policy_engine/engine.py): the    *)
(* policies it has generated so far, each under its policy_id, and the      *)
(* outcome of its last generate_policies.                                   *)

\* uuid4().hex[:8] of _get_next_policy_id: any of the ids
PolicyIds == {"policy-0a1b2c3d", "policy-4e5f6a7b"}

\* Policy(policy_id=..., policy_type=..., target=..., parameters=..., priority=...)
Policy(policy_id, p) ==
    [policy_id |-> policy_id, policy_type |-> p.policy_type, target |-> p.target,
     parameters |-> p.parameters, priority |-> p.priority]

with_ids(policies, ids) == [i \in DOMAIN policies |-> Policy(ids[i], policies[i])]

\* A policy without its policy_id
NonIdFields(p) ==
    [policy_type |-> p.policy_type, target |-> p.target,
     parameters |-> p.parameters, priority |-> p.priority]

\* The number of policies generate_policies makes for an intent
Made(parsed) == IF raises(parsed) THEN 0 ELSE Len(generate_policies(parsed))

\* Mutant: a policy that the engine already holds is not generated again.
engine_generate_once(eng, parsed, ids) ==
    LET held == {NonIdFields(eng.policies[i]) : i \in DOMAIN eng.policies}
        out  == SelectSeq(with_ids(generate_policies(parsed), ids),
                          LAMBDA p : NonIdFields(p) \notin held)
    IN  IF raises(parsed) THEN [eng EXCEPT !.out = <<>>, !.raised = TRUE]
        ELSE [eng EXCEPT !.policies = @ \o out, !.out = out, !.raised = FALSE]

\* PolicyEngine.generate_policies with the ids that uuid4 hands out: the
\* new policies are appended to self.policies and returned; an exception
\* leaves self.policies as it was
engine_generate(eng, parsed, ids) ==
    LET out == with_ids(generate_policies(parsed), ids)
    IN  IF raises(parsed) THEN [eng EXCEPT !.out = <<>>, !.raised = TRUE]
        ELSE [eng EXCEPT !.policies = @ \o out, !.out = out, !.raised = FALSE]

\* The directives whose parsed intents the engine is handed
EngineDirectives == <<1, 2, 4, 5, 6, 13, 15, 16, 22, 28, 30, 35, 36>>

\* The raw values of the publish_interval intents, and the intent the parser
\* makes of 'set publish interval to v'
IntervalValues == <<0, 1, 60, 61, 5000, 60000, 60001>>
interval_intent(v) ==
    [type |-> "publish_interval", parameters |-> [interval_value |-> <<ToString(v)>>]]

\* The parsed intent of tests/test_core.py, which names its target only
TestCoreIntent ==
    [type |-> "priority", parameters |-> [target_device |-> "node-1"]]

\* The valid parsed intents handed to generate_policies
EngineIntents ==
    [k \in DOMAIN EngineDirectives |-> Parsed[EngineDirectives[k]]]
        \o <<TestCoreIntent>>
        \o [k \in DOMAIN IntervalValues |-> interval_intent(IntervalValues[k])]

\* engine: policies is self.policies; calls counts the generate_policies
\* calls; last is the intent of the last call (0 before the first), out
\* what it returned and raised whether it raised instead; returned holds,
\* with its intent, every outcome a call has had so far, ids left out.
NoEngine ==
    [policies |-> <<>>, calls |-> 0, last |-> 0, out |-> <<>>, raised |-> FALSE,
     returned |-> {}]

\* The outcome of the engine's last call, ids left out
Outcome(eng) ==
    [raised |-> eng.raised, policies |-> [i \in DOMAIN eng.out |-> NonIdFields(eng.out[i])]]

----------------------------------------------------------------------------
(* State machine *)

\* lastOp: what the last public operation was and how it ended.
\*   why: the return path taken ("ok", "target_unknown", "type_unknown",
\*        "tc_failed");
\*   pol: the policy applied (0 when its target did not resolve);
\*   target: the device named (blank when the policy type was not dispatched);
\*   ret: "True", "False", or "raised" when an exception left the operation;
\*   issued: it issued a state-changing tc invocation; nominal: the tool
\*   failed none;
\*   kernelChanged, activeChanged: the operation changed the kernel state,
\*   the active-policy map;
\*   hadNetem: a netem qdisc hung under the target's class before the operation;
\*   afterFailure: the operation before was an apply_policy that a tc failure
\*   turned into False;
\*   only: the device d when every operation since a clean construction was a
\*   successful apply_policy on d with no tool failure, blank otherwise;
\*   after: for a directive, the directive submitted with success right
\*   before it (0 when there is none);
\*   wouldBe: for an apply_policy that a tc failure ended after it had changed
\*   the kernel, what the same call leaves of its device when no invocation
\*   fails; retried: the operation is an apply_policy of the same policy on
\*   the same device right after such a call, with no failure, and wouldBe
\*   is carried over from that call.
NoOp == [op |-> "none", why |-> "ok", pol |-> 0, target |-> "", nominal |-> TRUE,
         ret |-> "True", issued |-> FALSE,
         kernelChanged |-> FALSE, activeChanged |-> FALSE, hadNetem |-> FALSE,
         afterFailure |-> FALSE, only |-> "", after |-> 0,
         wouldBe |-> {}, retried |-> FALSE]

\* The map without its timestamps.
Untimed(active) ==
    [d \in DOMAIN active |->
        [policy_type |-> active[d].policy_type, params |-> active[d].params]]

NetemUnder(kern, device_id) ==
    IF device_id \in Registered
    THEN {q \in kern[DEVICE_REGISTRY[device_id].iface].netem :
              q.parent = DEVICE_REGISTRY[device_id].classid}
    ELSE {}

\* What the kernel and the active-policy map hold of a registered device:
\* its class, the filters for its IP in their order, the netem qdiscs of its
\* class, its record without the timestamp
DeviceView(kern, active, d) ==
    LET k   == kern[DEVICE_REGISTRY[d].iface]
        cid == DEVICE_REGISTRY[d].classid
    IN  [class   |-> {k.classes[c] : c \in DOMAIN k.classes \cap {cid}},
         filters |-> SelectSeq(k.filters,
                         LAMBDA f : f.match = KMatchWord(DEVICE_REGISTRY[d].ip)),
         netem   |-> {q \in k.netem : q.parent = cid \/ q.handle = cid},
         record  |-> {Untimed(active)[x] : x \in DOMAIN active \cap {d}}]

\* A failed apply_policy that changed the kernel: the same call from the
\* same state with the tool working
FaultFree(op, pol, target, out) ==
    IF op = "apply" /\ out.why = "tc_failed" /\ out.kernel # kernel
    THEN LET good == apply_policy(kernel, active_policies, Policies[pol], target, {},
                                  clock + 1)
         IN  {DeviceView(good.kernel, good.active, target)}
    ELSE {}

Retried(op, pol, target, out) ==
    /\ op = "apply" /\ ~out.faulted
    /\ lastOp.op = "apply" /\ lastOp.wouldBe # {}
    /\ lastOp.pol = pol /\ lastOp.target = target

Done(op, pol, target, out) ==
    [op |-> op, why |-> out.why,
     pol |-> IF out.why = "target_unknown" THEN 0 ELSE pol,
     target |-> IF out.why = "type_unknown" THEN "" ELSE target,
     nominal |-> ~out.faulted,
     ret |-> out.ret, issued |-> (out.n > 0),
     kernelChanged |-> (out.kernel # kernel),
     activeChanged |-> (out.active # active_policies),
     hadNetem |-> (out.why = "ok" /\ NetemUnder(kernel, target) # {}),
     afterFailure |-> (lastOp.op = "apply" /\ lastOp.why = "tc_failed"),
     only |-> IF /\ op = "apply" /\ out.ret = "True" /\ ~out.faulted
                 /\ \/ lastOp.op = "construct" /\ lastOp.ret = "True" /\ lastOp.nominal
                    \/ lastOp.only = target
              THEN target ELSE "",
     after |-> IF op = "submit" /\ lastOp.op = "submit" /\ lastOp.ret = "True"
               THEN lastOp.pol ELSE 0,
     wouldBe |-> IF Retried(op, pol, target, out) THEN lastOp.wouldBe
                 ELSE FaultFree(op, pol, target, out),
     retried |-> Retried(op, pol, target, out)]

\* devOp: the DeviceEnforcer call that ran last ("dispatch": the calls made
\* for a directive).  For apply_policy: the policy and target and what it
\* returned; for both, whether the session was live when it was called
\* (live), and whether the broker received a message (grew); for
\* apply_policy, the increments of ibs_device_enforcement_total it made
\* (counted).
NoDevOp == [op |-> "none", pol |-> 0, target |-> "", ret |-> "None",
            live |-> FALSE, grew |-> FALSE, counted |-> <<>>]

\* The threads that call the Network Enforcer (the workers that serve
\* directives); the metrics collector is one more thread.
Workers == {"w1", "w2"}

\* threads[w]: where worker w is in its call.  pc: "idle"; "waiting" at
\* "with self._lock"; "tc" inside it, before the tc invocations of the call;
\* "record" after them, before the write to the active-policy map; "exit"
\* before the lock is released and the call returns.  pending is the map the
\* call is about to store, before the enforcer state (kernel, map) it found
\* when it got the lock.
Idle == [pc |-> "idle", op |-> "none", pol |-> 0, target |-> "", F |-> {},
         ret |-> "None", pending |-> EmptyDict, before |-> <<>>]

\* poll: the collector's cycle.  pc: the read that comes next; stats: the
\* devices collect_tc_stats found a class for; active: the copy
\* get_active_policies returned; met: the enforcer state (kernel, map) at
\* the last read made during a call; during: the worker that was inside the
\* lock at that read;
\* torn: a read met a state that was neither the one the call in progress
\* found nor the one it left;
\* cycles: a cycle has been completed; policy_active and gauges: the gauge
\* ibs_policy_active and, per device label set so far, the gauges
\* ibs_tc_rate_bps, ibs_tc_delay_ms and ibs_tc_priority; prev_devices:
\* self._prev_devices; was: its value when the last cycle began.
NoPoll == [pc |-> "stats", stats |-> {}, active |-> EmptyDict, met |-> <<>>,
           during |-> "none", torn |-> FALSE, cycles |-> FALSE, policy_active |-> 0,
           gauges |-> EmptyDict, prev_devices |-> {}, was |-> {}]

\* _parse_rate_to_bps and _parse_delay_to_ms on the rates and delays in use
parse_rate_to_bps(rate_str) ==
    CASE rate_str = "2mbit" -> 2000000 [] rate_str = "10mbit" -> 10000000
      [] rate_str = "100mbit" -> 100000000 [] rate_str = "200mbit" -> 200000000
parse_delay_to_ms(delay_str) ==
    CASE delay_str = "50ms" -> 50 [] delay_str = "100ms" -> 100 [] delay_str = "0ms" -> 0

\* The three gauges of a device, as the loop over active.items() sets them
gauges_of(pol) ==
    [rate  |-> IF Has(pol.params, "rate") THEN parse_rate_to_bps(pol.params["rate"]) ELSE 0,
     delay |-> IF Has(pol.params, "delay") THEN parse_delay_to_ms(pol.params["delay"]) ELSE 0,
     prio  |-> IF Has(pol.params, "prio") THEN pol.params["prio"] ELSE 0]

\* Mutant: no device is taken as stale.
stale_devices_none(prev_devices, active_devices) == {}

\* stale_devices = self._prev_devices - active_devices
stale_devices(prev_devices, active_devices) == prev_devices \ active_devices

\* Step 2 of _collect on the snapshot active: ibs_policy_active, the gauges
\* of the stale devices set to 0, then the gauges of the snapshot's devices
collect_policies(p, active) ==
    LET zeroed == [d \in stale_devices(p.prev_devices, DOMAIN active) |->
                      [rate |-> 0, delay |-> 0, prio |-> 0]]
    IN  [p EXCEPT !.active = active, !.cycles = TRUE,
                  !.policy_active = Cardinality(DOMAIN active),
                  !.was = p.prev_devices, !.prev_devices = DOMAIN active,
                  !.gauges = Update(Update(@, zeroed),
                                    [d \in DOMAIN active |-> gauges_of(active[d])])]

----------------------------------------------------------------------------
(* The API's rate limiter.  Time is in seconds; a request history is the    *)
(* list of the times of the requests let through.                           *)

\* self.limits after __init__
DefaultLimits ==
    [t \in {"default", "auth", "intents", "high"} |->
        CASE t = "default" -> [requests |-> 1000, window |-> 3600]
          [] t = "auth"    -> [requests |-> 100,  window |-> 3600]
          [] t = "intents" -> [requests |-> 500,  window |-> 3600]
          [] t = "high"    -> [requests |-> 2000, window |-> 3600]]

\* Configurations handed to configure_limits: the same window for both
\* limit types, and a shorter window for 'auth'
LimitConfigs ==
    {[t \in {"default", "auth"} |->
        IF t = "default" THEN [requests |-> 2, window |-> 2]
                         ELSE [requests |-> 1, window |-> 2]],
     [t \in {"default", "auth"} |->
        IF t = "default" THEN [requests |-> 2, window |-> 3]
                         ELSE [requests |-> 1, window |-> 1]]}

LimitTypes == {"default", "auth"}

ClientIps == {"10.0.0.1", "10.0.0.2"}

\* limiter: limits is self.limits, requests is self.requests, whitelist is
\* IPWhitelist.whitelist, now is datetime.utcnow(); configured: a
\* configure_limits call was made; calls: the requests served so far;
\* accepted: the calls is_rate_limited answered with is_limited = False, as
\* (client, limit type, time); last: the request served last, whether its
\* address was whitelisted, the status of the answer, what is_rate_limited
\* returned and whether it stored a timestamp.
NoLimiter ==
    [limits |-> DefaultLimits, requests |-> EmptyDict, whitelist |-> {}, now |-> 0,
     configured |-> FALSE, calls |-> 0, accepted |-> <<>>,
     last |-> [op |-> "none"]]

\* configure_limits: self.limits.update(limits)
configure_limits(limits, new) == Update(limits, new)

\* get_client_id for a request that carries no current_user
get_client_id(remote_addr) == <<"ip", remote_addr>>

\* is_rate_limited, the whole of it under self.lock: self.requests as it
\* leaves it, the tuple it returns, and the history after the pruning
is_rate_limited(lim, client_id, limit_type) ==
    LET limit_config   == Get(lim.limits, limit_type, lim.limits["default"])
        max_requests   == limit_config.requests
        window_seconds == limit_config.window
        window_start   == lim.now - window_seconds
        request_times  == SelectSeq(Get(lim.requests, client_id, <<>>),
                                    LAMBDA t : t > window_start)
        is_limited     == Len(request_times) >= max_requests
    IN  [requests   |-> Update(lim.requests,
                           [c \in {client_id} |->
                               IF is_limited THEN request_times
                               ELSE Append(request_times, lim.now)]),
         is_limited |-> is_limited,
         remaining  |-> Max({0, max_requests - Len(request_times)}),
         reset_time |-> IF request_times # <<>> THEN request_times[1] + window_seconds
                        ELSE lim.now + window_seconds,
         pruned     |-> request_times]

\* The function rate_limiter.limit(limit_type) wraps around a view: 429
\* when limited, the view's answer otherwise
limit(lim, remote_addr, limit_type) ==
    LET r == is_rate_limited(lim, get_client_id(remote_addr), limit_type)
    IN  [requests |-> r.requests, status |-> IF r.is_limited THEN 429 ELSE 200,
         is_limited |-> r.is_limited, remaining |-> r.remaining,
         reset_time |-> r.reset_time,
         recorded |-> (r.requests[get_client_id(remote_addr)] # r.pruned)]

\* The function ip_whitelist.check wraps around f = limit(view): f is
\* called on both branches
check(lim, remote_addr, limit_type) ==
    IF remote_addr \in lim.whitelist
    THEN limit(lim, remote_addr, limit_type)
    ELSE limit(lim, remote_addr, limit_type)

\* snapshot: the mapping get_active_policies() returned to a caller.  The
\* mapping is a dict of its own; its values are the record objects of the
\* enforcer's map.  at: the params of each device when it was returned;
\* seen: the params read through it now; shared: the devices whose params
\* dict is still the one the enforcer's record holds.
NoSnapshot == [taken |-> FALSE, at |-> EmptyDict, seen |-> EmptyDict, shared |-> {}]

\* get_active_policies: dict(self._active_policies)
get_active_policies(active) ==
    [taken |-> TRUE,
     at     |-> [d \in DOMAIN active |-> active[d].params],
     seen   |-> [d \in DOMAIN active |-> active[d].params],
     shared |-> DOMAIN active]

\* What a held mapping shows once an operation has left the map active:
\* _record updates the params dict of the record it finds in place and
\* stores it in the new record, so a dict the held mapping shares follows
\* it; pop and clear take the record out of the enforcer's map only, and a
\* later _record for the device starts from a dict of its own.
aliased(snap, active) ==
    [snap EXCEPT !.shared = @ \cap DOMAIN active,
                 !.seen = [d \in DOMAIN @ |->
                              IF d \in snap.shared \cap DOMAIN active
                              THEN active[d].params ELSE @[d]]]

----------------------------------------------------------------------------
(* Startup of the registry, and the initial state *)

\* The registry at import time.  The static seed:
StaticSeed ==
    [d \in {"esp32-cam-1", "esp32-mhz19-1", "esp32-audio-1"} |-> DEVICE_REGISTRY[d]]

\* range(1, 11): the containers imperium-iot-node-1 .. -10
LastContainer == 10

\* f"node-{i}"
node_name(i) ==
    CASE i = 1 -> "node-1" [] i = 2 -> "node-2" [] i = 3 -> "node-3" [] i = 4 -> "node-4"
      [] i = 5 -> "node-5" [] i = 6 -> "node-6" [] i = 7 -> "node-7" [] i = 8 -> "node-8"
      [] i = 9 -> "node-9" [] i = 10 -> "node-10" [] OTHER -> "node-n"

\* What "docker inspect" answers for a container: its exit code and the
\* address it prints (blank for a container without one); "raised": the
\* docker binary could not be run.
InspectAnswers ==
    {[rc |-> 1, ip |-> <<>>], [rc |-> 0, ip |-> <<>>], [rc |-> 0, ip |-> IpNode1],
     [rc |-> 0, ip |-> IpCo2], [rc |-> -1, ip |-> <<>>]}

\* Mutant: the containers get class-ids 90 .. 99.
register_node_from_90(entries, i, out) ==
    IF out.rc = 0 /\ out.ip # <<>>
    THEN Update(entries, [d \in {node_name(i)} |->
             [ip |-> out.ip, classid |-> 89 + i, iface |-> DOCKER_BRIDGE]])
    ELSE entries

\* One turn of the loop of _register_docker_sim_nodes on the answer out
register_node(entries, i, out) ==
    IF out.rc = 0 /\ out.ip # <<>>
    THEN Update(entries, [d \in {node_name(i)} |->
             [ip |-> out.ip, classid |-> 30 + i, iface |-> DOCKER_BRIDGE]])
    ELSE entries

Init ==
    /\ constructed = FALSE
    /\ kernel = [iface \in Interfaces |-> FreshKernel]
    /\ active_policies = EmptyDict
    /\ lastOp = NoOp
    /\ clock = 0
    /\ intents = <<>>
    /\ response = [status |-> "none"]
    /\ connected = FALSE
    /\ session = FALSE
    /\ published = <<>>
    /\ devOp = NoDevOp
    /\ engine = NoEngine
    /\ threads = [w \in Workers |-> Idle]
    /\ lock = "free"
    /\ poll = NoPoll
    /\ registry = [next |-> 1, entries |-> StaticSeed]
    /\ limiter = NoLimiter
    /\ snapshot = NoSnapshot

\* A failure set is an input only when it hits an invocation of the operation.
Tick(F, out) ==
    /\ clock < MaxOps
    /\ F = {} \/ out.faulted
    /\ clock' = clock + 1

\* The operation op, whose outcome is out, takes effect
Commit(op, pol, target, F, out) ==
    /\ Tick(F, out)
    /\ kernel' = out.kernel
    /\ active_policies' = out.active
    /\ lastOp' = Done(op, pol, target, out)

Construct(F) ==
    /\ ~constructed
    /\ \E order \in InterfaceOrders :
           Commit("construct", 0, "", F, construct(kernel, F, order))
    /\ constructed' = (lastOp'.ret # "raised")
    /\ UNCHANGED <<storeVars, mqttVars, threadVars>>

ApplyPolicy(i, target, F) ==
    /\ constructed
    /\ Commit("apply", i, target, F,
              apply_policy(kernel, active_policies, Policies[i], target, F, clock + 1))
    /\ UNCHANGED <<constructed, storeVars, mqttVars, threadVars>>

ClearDevice(device_id, F) ==
    /\ constructed
    /\ Commit("clear_device", 0, device_id, F,
              clear_device(kernel, active_policies, device_id, F))
    /\ UNCHANGED <<constructed, storeVars, mqttVars, threadVars>>

ClearAll(F) ==
    /\ constructed
    /\ Commit("clear_all", 0, "", F, clear_all(kernel, active_policies, F))
    /\ UNCHANGED <<constructed, storeVars, mqttVars, threadVars>>

Next ==
    \/ \E F \in FaultSets(BringUpKinds) : Construct(F)
    \/ \E i \in DOMAIN Policies, target \in Targets :
           \E F \in FaultSets(ApplyKinds(Policies[i].policy_type)) :
               ApplyPolicy(i, target, F)
    \/ \E device_id \in Targets, F \in FaultSets(ClearKinds) : ClearDevice(device_id, F)
    \/ \E F \in FaultSets({"qdisc_del"}) : ClearAll(F)

Spec == Init /\ [][Next]_vars

\* Priority policies that carry a level and no rate or ceil, tool working.
\* lastOp keeps, besides the outcome, the policy type and level applied and
\* the params the device's record held before the call (had).
Levels == {"critical", "high", "medium", "low", "urgent"}

LevelTypes == {"traffic_shaping", "routing_priority", "priority"}

\* A device with a class of its own, and one that shares its class
LevelTargets == {"esp32-cam-1", "esp32-audio-1"}

LevelPolicy(ptype, level) == [policy_type |-> ptype, parameters |-> [priority |-> level]]

ApplyLevel(ptype, level, target) ==
    LET out == apply_policy(kernel, active_policies, LevelPolicy(ptype, level),
                            target, {}, clock + 1)
    IN  /\ constructed
        /\ Tick({}, out)
        /\ kernel' = out.kernel
        /\ active_policies' = out.active
        /\ lastOp' = [op |-> "level", why |-> out.why, ret |-> out.ret,
                      target |-> target, ptype |-> ptype, level |-> level,
                      had |-> IF target \in DOMAIN active_policies
                              THEN active_policies[target].params ELSE EmptyDict,
                      only |-> "", wouldBe |-> {}]
        /\ UNCHANGED <<constructed, storeVars, mqttVars, threadVars>>

NextLevels ==
    \/ Construct({})
    \/ \E i \in {1, 2}, target \in Targets \ {"esp32-nope-9"} : ApplyPolicy(i, target, {})
    \/ \E ptype \in LevelTypes, level \in Levels, target \in LevelTargets :
           ApplyLevel(ptype, level, target)

SpecLevels == Init /\ [][NextLevels]_vars

\* Startup: the scan of the containers, one after the other.
Inspect(out) ==
    /\ registry.next <= LastContainer
    /\ registry' = [next |-> registry.next + 1,
                    entries |-> register_node(registry.entries, registry.next, out)]
    /\ UNCHANGED <<enforcerVars, lastOp, clock, intents, response, engine, limiter,
                   snapshot, mqttVars, threadVars>>

NextRegistry == \E out \in InspectAnswers : Inspect(out)

SpecRegistry == Init /\ [][NextRegistry]_vars

\* A caller that holds a mapping from get_active_policies() while the
\* enforcer goes on, tool working.
Held(out) ==
    /\ snapshot' = aliased(snapshot, out.active)
    /\ UNCHANGED <<constructed, intents, response, engine, registry, limiter, mqttVars,
                   threadVars>>

TakeSnapshot ==
    /\ constructed /\ ~snapshot.taken
    /\ snapshot' = get_active_policies(active_policies)
    /\ UNCHANGED <<enforcerVars, lastOp, clock, intents, response, engine, registry,
                   limiter, mqttVars, threadVars>>

ApplyHeld(i, target) ==
    /\ constructed
    /\ \E out \in {apply_policy(kernel, active_policies, Policies[i], target, {},
                                 clock + 1)} :
           Commit("apply", i, target, {}, out) /\ Held(out)

ClearDeviceHeld(device_id) ==
    /\ constructed
    /\ \E out \in {clear_device(kernel, active_policies, device_id, {})} :
           Commit("clear_device", 0, device_id, {}, out) /\ Held(out)

ClearAllHeld ==
    /\ constructed
    /\ \E out \in {clear_all(kernel, active_policies, {})} :
           Commit("clear_all", 0, "", {}, out) /\ Held(out)

NextSnapshot ==
    \/ Construct({})
    \/ TakeSnapshot
    \/ \E i \in DOMAIN Policies, target \in Targets : ApplyHeld(i, target)
    \/ \E device_id \in Targets : ClearDeviceHeld(device_id)
    \/ ClearAllHeld

SpecSnapshot == Init /\ [][NextSnapshot]_vars

\* The API in front of the limiter.  configure_limits is called before the
\* first request, if at all.
LimiterStep(next) ==
    /\ limiter' = next
    /\ UNCHANGED <<enforcerVars, lastOp, clock, intents, response, engine, registry,
                   snapshot, mqttVars, threadVars>>

ConfigureLimits(new) ==
    /\ ~limiter.configured /\ limiter.calls = 0
    /\ LimiterStep([limiter EXCEPT !.limits = configure_limits(@, new),
                                   !.configured = TRUE, !.last = [op |-> "configure"]])

\* IPWhitelist.add
Add(ip_address) ==
    /\ ip_address \notin limiter.whitelist
    /\ LimiterStep([limiter EXCEPT !.whitelist = @ \cup {ip_address},
                                   !.last = [op |-> "add"]])

\* A second goes by
Advance ==
    /\ limiter.now < MaxTime
    /\ LimiterStep([limiter EXCEPT !.now = @ + 1, !.last = [op |-> "advance"]])

\* A request to an endpoint decorated with ip_whitelist.check over
\* rate_limiter.limit(limit_type)
Request(remote_addr, limit_type) ==
    /\ limiter.calls < MaxRequests
    /\ \E r \in {check(limiter, remote_addr, limit_type)} :
           LimiterStep([limiter EXCEPT
               !.requests = r.requests,
               !.calls = @ + 1,
               !.accepted = IF r.is_limited THEN @
                            ELSE Append(@, [client |-> get_client_id(remote_addr),
                                            type |-> limit_type, t |-> limiter.now]),
               !.last = [op |-> "request", remote_addr |-> remote_addr,
                         limit_type |-> limit_type,
                         whitelisted |-> (remote_addr \in limiter.whitelist),
                         status |-> r.status, is_limited |-> r.is_limited,
                         remaining |-> r.remaining, reset_time |-> r.reset_time,
                         recorded |-> r.recorded,
                         was |-> Get(limiter.requests, get_client_id(remote_addr), <<>>)]])

NextLimiter ==
    \/ \E new \in LimitConfigs : ConfigureLimits(new)
    \/ \E ip_address \in ClientIps : Add(ip_address)
    \/ Advance
    \/ \E remote_addr \in ClientIps, limit_type \in LimitTypes :
           Request(remote_addr, limit_type)

SpecLimiter == Init /\ [][NextLimiter]_vars

\* The Device Enforcer.  connect(): the broker accepts (on_connect with
\* rc = 0 sets the flag) or not; the call raises when the flag stays unset.
Connect(ok) ==
    /\ session' = ok
    /\ connected' = (connected \/ ok)
    /\ devOp' = [NoDevOp EXCEPT !.op = "connect",
                                !.ret = IF connected' THEN "None" ELSE "raised"]
    /\ UNCHANGED <<enforcerVars, lastOp, clock, storeVars, published, threadVars>>

\* disconnect(): loop_stop and client.disconnect; the flag is left as it is
Disconnect ==
    /\ session' = FALSE
    /\ devOp' = [NoDevOp EXCEPT !.op = "disconnect", !.ret = "None"]
    /\ UNCHANGED <<enforcerVars, lastOp, clock, storeVars, connected, published, threadVars>>

\* DeviceEnforcer.apply_policy, whose outcome is out
DeviceCommit(i, target, out) ==
    /\ published' = out.published
    /\ devOp' = [op |-> "apply", pol |-> i, target |-> target,
                 ret |-> IF out.ret THEN "True" ELSE "False",
                 live |-> session, grew |-> (out.published # published),
                 counted |-> out.counted]

DeviceApply(i, target, fault) ==
    /\ clock < MaxDeviceOps
    /\ fault => session
    /\ clock' = clock + 1
    /\ DeviceCommit(i, target,
           device_apply_policy([connected |-> connected, session |-> session,
                                published |-> published],
                               [policy_type |-> DevicePolicies[i].policy_type,
                                target |-> target,
                                parameters |-> DevicePolicies[i].parameters],
                               fault))
    /\ UNCHANGED <<enforcerVars, lastOp, storeVars, connected, session, threadVars>>

NextDevice ==
    \/ \E ok \in BOOLEAN : Connect(ok)
    \/ Disconnect
    \/ \E i \in DOMAIN DevicePolicies, target \in DeviceTargets, fault \in BOOLEAN :
           DeviceApply(i, target, fault)

SpecDevice == Init /\ [][NextDevice]_vars

\* The pipeline: directives submitted one after the other, tool working.
\* sub is what submit_intent returns and leaves in the store, out what the
\* dispatcher leaves.
Dispatch(d, sub, out) ==
    /\ intents' = sub.intents
    /\ response' = sub.response
    /\ published' = out.published
    /\ devOp' = [NoDevOp EXCEPT !.op = "dispatch", !.live = session,
                                !.grew = (out.published # published)]
    /\ Commit("submit", d, "", {}, out)

Submit(d) ==
    /\ constructed
    /\ clock <= MaxSubmits
    /\ \E sub \in {submit_parsed(intents, Directives[d], Parsed[d])} :
           Dispatch(d, sub,
               dispatched([kernel |-> kernel, active |-> active_policies,
                           connected |-> connected, session |-> session,
                           published |-> published, ok |-> TRUE, n |-> 0],
                          sub.response, clock + 1))
    /\ UNCHANGED <<constructed, connected, session, engine, apiVars, threadVars>>

NextPipeline ==
    \/ Construct({})
    \/ \E ok \in BOOLEAN : Connect(ok)
    \/ \E d \in DOMAIN Directives : Submit(d)

SpecPipeline == Init /\ [][NextPipeline]_vars

\* The policy engine alone: generate_policies called on one valid parsed
\* intent after the other, each call with the ids uuid4 gives it.
Generate(p, ids) ==
    /\ engine.calls < MaxGenerates
    /\ \E eng \in {engine_generate(engine, EngineIntents[p], ids)} :
           engine' = [eng EXCEPT !.calls = @ + 1, !.last = p,
                                 !.returned = @ \cup {<<p, Outcome(eng)>>}]
    /\ UNCHANGED <<enforcerVars, lastOp, clock, intents, response, apiVars, mqttVars,
                   threadVars>>

NextEngine ==
    \E p \in DOMAIN EngineIntents :
        \E ids \in [1..Made(EngineIntents[p]) -> PolicyIds] : Generate(p, ids)

SpecEngine == Init /\ [][NextEngine]_vars

----------------------------------------------------------------------------
(* Threads.  A call of apply_policy, clear_device or clear_all by a worker  *)
(* takes four steps: it gets the lock, runs its tc invocations, writes the  *)
(* active-policy map, and releases the lock as it returns.  The collector   *)
(* reads between any two steps.                                             *)

\* The enforcer state a thread finds
Found == <<kernel, Untimed(active_policies)>>

\* The outcome of the call th on the kernel and the map
outcome(th, kern, active, now) ==
    IF th.op = "apply"
    THEN apply_policy(kern, active, Policies[th.pol], th.target, th.F, now)
    ELSE IF th.op = "clear_device" THEN clear_device(kern, active, th.target, th.F)
    ELSE clear_all(kern, active, th.F)

\* Mutant: the lock is not waited for.
can_enter_at_once(holder) == TRUE

\* "with self._lock": the thread goes on once the lock is free
can_enter(holder) == holder = "free"

\* A worker calls apply_policy, clear_device (of a registered device: any
\* other returns before the lock) or clear_all.
Call(w, op, i, target, F) ==
    /\ constructed
    /\ clock <= MaxCalls
    /\ threads[w].pc = "idle"
    /\ threads' = [threads EXCEPT ![w] =
           [Idle EXCEPT !.pc = "waiting", !.op = op, !.pol = i, !.target = target, !.F = F]]
    /\ clock' = clock + 1
    /\ UNCHANGED <<enforcerVars, lastOp, storeVars, mqttVars, lock, poll>>

Enter(w) ==
    /\ threads[w].pc = "waiting"
    /\ can_enter(lock)
    /\ lock' = w
    /\ threads' = [threads EXCEPT ![w].pc = "tc", ![w].before = Found]
    /\ UNCHANGED <<enforcerVars, lastOp, clock, storeVars, mqttVars, poll>>

\* The tc invocations of the call, whose outcome is out
Ran_tc(w, out) ==
    /\ kernel' = out.kernel
    /\ threads' = [threads EXCEPT
           ![w].pc = IF out.active = active_policies THEN "exit" ELSE "record",
           ![w].ret = out.ret, ![w].pending = out.active]

RunTc(w) ==
    /\ threads[w].pc = "tc"
    /\ Ran_tc(w, outcome(threads[w], kernel, active_policies, clock))
    /\ UNCHANGED <<constructed, active_policies, lastOp, clock, storeVars, mqttVars,
                   lock, poll>>

\* _record, or the pop or clear of the map
Record(w) ==
    /\ threads[w].pc = "record"
    /\ active_policies' = threads[w].pending
    /\ threads' = [threads EXCEPT ![w].pc = "exit"]
    /\ UNCHANGED <<constructed, kernel, lastOp, clock, storeVars, mqttVars, lock, poll>>

\* The lock is released and the call returns
Exit(w) ==
    /\ threads[w].pc = "exit"
    /\ lock' = "free"
    /\ threads' = [threads EXCEPT ![w] = [Idle EXCEPT !.ret = threads[w].ret]]
    /\ poll' = [poll EXCEPT
           !.during = IF @ = w THEN "none" ELSE @,
           !.met = IF poll.during = w THEN <<>> ELSE @,
           !.torn = @ \/ (poll.during = w /\ poll.met \notin {threads[w].before, Found})]
    /\ UNCHANGED <<enforcerVars, lastOp, clock, storeVars, mqttVars>>

\* A read of the collector: which worker is inside the lock, and the state
\* met (kept while that worker's call lasts)
Met == [poll EXCEPT !.met = IF lock \in Workers THEN Found ELSE <<>>,
                    !.during = IF lock \in Workers THEN lock ELSE "none"]

\* MetricsCollector._collect, first read: collect_tc_stats
CollectTcStats ==
    /\ constructed
    /\ poll.pc = "stats"
    /\ poll' = [Met EXCEPT !.pc = "active",
           !.stats = {d \in Registered :
                         DEVICE_REGISTRY[d].classid
                             \in DOMAIN kernel[DEVICE_REGISTRY[d].iface].classes}]
    /\ UNCHANGED <<enforcerVars, lastOp, clock, storeVars, mqttVars, threads, lock>>

\* MetricsCollector._collect, second read: get_active_policies, and the
\* gauges set from the snapshot
GetActivePolicies ==
    /\ poll.pc = "active"
    /\ poll' = collect_policies([Met EXCEPT !.pc = "stats"], active_policies)
    /\ UNCHANGED <<enforcerVars, lastOp, clock, storeVars, mqttVars, threads, lock>>

\* What the threads call with: a registered device and an unknown one, and
\* one policy for each handler and one of a type that has none
ThreadTargets == {"esp32-cam-1", "esp32-nope-9"}

ThreadPolicies ==
    {i \in DOMAIN Policies :
        Policies[i].policy_type
            \in {"bandwidth_limit", "latency_control", "routing_priority", "qos_control"}}

NextThreads ==
    \/ Construct({})
    \/ \E w \in Workers, i \in ThreadPolicies, target \in ThreadTargets :
           \E F \in {{}, {"class_change"}} : Call(w, "apply", i, target, F)
    \/ \E w \in Workers, target \in ThreadTargets \cap Registered :
           Call(w, "clear_device", 0, target, {})
    \/ \E w \in Workers : Call(w, "clear_all", 0, "", {})
    \/ \E w \in Workers : Enter(w)
    \/ \E w \in Workers : RunTc(w)
    \/ \E w \in Workers : Record(w)
    \/ \E w \in Workers : Exit(w)
    \/ CollectTcStats
    \/ GetActivePolicies

SpecThreads == Init /\ [][NextThreads]_vars

----------------------------------------------------------------------------
(* Properties of the Network Enforcer *)

Applied == lastOp.op = "apply" /\ lastOp.ret = "True"

ClassOf(d) == kernel[DEVICE_REGISTRY[d].iface].classes

HasFilter(d) ==
    \E i \in DOMAIN kernel[DEVICE_REGISTRY[d].iface].filters :
        LET f == kernel[DEVICE_REGISTRY[d].iface].filters[i]
        IN  f.match = KMatchWord(DEVICE_REGISTRY[d].ip) /\ f.flowid = DEVICE_REGISTRY[d].classid

\* C1: after a run made only of successful apply_policy calls on one device d
\* (no tool failure in any of them), class 1:<classid(d)> exists, its rate,
\* ceil and prio are the ones d's merged record holds, and a u32 filter maps
\* ip(d) to the class.
C1_KernelMatchesRecord ==
    lastOp.only # "" =>
        LET d      == lastOp.only
            cid    == DEVICE_REGISTRY[d].classid
            params == active_policies[d].params
        IN  /\ cid \in DOMAIN ClassOf(d)
            /\ Has(params, "rate") => ClassOf(d)[cid].rate = params["rate"]
            /\ Has(params, "ceil") => ClassOf(d)[cid].ceil = params["ceil"]
            /\ Has(params, "prio") => ClassOf(d)[cid].prio = params["prio"]
            /\ HasFilter(d)

\* C2: applying once more the policy that was just applied successfully (tool
\* working in both calls) succeeds and leaves the kernel state and the
\* active-policy map as they were, the applied_at timestamps apart.
C2_Idempotent ==
    [][ ( /\ Applied /\ lastOp.nominal
          /\ lastOp'.op = "apply" /\ lastOp'.nominal
          /\ lastOp'.pol = lastOp.pol /\ lastOp'.target = lastOp.target
          /\ clock' = clock + 1 )
        => ( /\ lastOp'.ret = "True"
             /\ kernel' = kernel
             /\ Untimed(active_policies') = Untimed(active_policies) ) ]_vars

C2_Witness ==
    /\ Applied /\ lastOp.nominal /\ ~lastOp.kernelChanged
    /\ lastOp.hadNetem /\ lastOp.target = "esp32-cam-1"

\* The keys a handler writes into the record, and the type it records.
WrittenKeys(ptype) ==
    IF ptype \in {"bandwidth_limit", "bandwidth"} THEN {"rate", "ceil"}
    ELSE IF ptype \in {"latency_control", "latency"} THEN {"delay", "jitter", "loss"}
    ELSE {"priority", "prio", "rate", "ceil"}

RecordedType(ptype) ==
    IF ptype \in {"bandwidth_limit", "bandwidth"} THEN "bandwidth_limit"
    ELSE IF ptype \in {"latency_control", "latency"} THEN "latency_control"
    ELSE "priority"

\* The two directives of the composition scenario
LimitCam2mbit == Directives[1]
HighPriorityCam == Directives[2]

\* C3: after 'limit bandwidth to 2mbit for esp32-cam-1' and then 'set high
\* priority for esp32-cam-1', both submitted with success, class 1:10 on the
\* camera's interface has rate 2mbit, ceil 2mbit and prio 1, and a u32
\* filter maps the camera's IP to it.
C3_BandwidthThenPriority ==
    ( /\ lastOp.op = "submit" /\ lastOp.ret = "True" /\ lastOp.after # 0
      /\ Directives[lastOp.after] = LimitCam2mbit
      /\ Directives[lastOp.pol] = HighPriorityCam ) =>
        /\ 10 \in DOMAIN ClassOf("esp32-cam-1")
        /\ ClassOf("esp32-cam-1")[10].rate = "2mbit"
        /\ ClassOf("esp32-cam-1")[10].ceil = "2mbit"
        /\ ClassOf("esp32-cam-1")[10].prio = 1
        /\ HasFilter("esp32-cam-1")

C5_OneNetemWithDelay ==
    ( Applied /\ Policies[lastOp.pol].policy_type \in {"latency_control", "latency"} ) =>
        LET cid == DEVICE_REGISTRY[lastOp.target].classid
            qs  == NetemUnder(kernel, lastOp.target)
        IN  /\ Cardinality(qs) = 1
            /\ \A q \in qs : /\ q.handle = cid
                             /\ q.delay = Policies[lastOp.pol].parameters["delay"]

C5_Witness ==
    /\ Applied /\ lastOp.hadNetem /\ lastOp.kernelChanged
    /\ Policies[lastOp.pol].policy_type \in {"latency_control", "latency"}

\* C6: after clear_device(d) has returned for a registered d (tool working),
\* the kernel holds no class 1:<classid(d)>, no netem <classid(d)>:, no u32
\* filter for ip(d), and d has no active-policy record.
C6_Cleared ==
    ( lastOp.op = "clear_device" /\ lastOp.ret = "True" /\ lastOp.nominal ) =>
        LET d   == lastOp.target
            k   == kernel[DEVICE_REGISTRY[d].iface]
            cid == DEVICE_REGISTRY[d].classid
        IN  /\ cid \notin DOMAIN k.classes
            /\ ~\E q \in k.netem : q.handle = cid \/ q.parent = cid
            /\ KMatchWord(DEVICE_REGISTRY[d].ip) \notin FilterMatches(k)
            /\ d \notin DOMAIN active_policies

C6_Witness ==
    /\ lastOp.op = "clear_device" /\ lastOp.ret = "True" /\ lastOp.nominal
    /\ lastOp.kernelChanged /\ lastOp.activeChanged
    /\ lastOp.target = "esp32-mhz19-1"
    /\ "esp32-audio-1" \in DOMAIN active_policies

\* C7: apply_policy of a network-type policy whose target is not registered
\* returns False, issues no state-changing tc command, and changes neither
\* the kernel nor the active-policy map.
C7_TargetUnknown ==
    ( lastOp.op = "apply" /\ lastOp.target # "" /\ lastOp.target \notin Registered ) =>
        /\ lastOp.ret = "False"
        /\ ~lastOp.issued
        /\ ~lastOp.kernelChanged
        /\ ~lastOp.activeChanged

C7_Witness ==
    /\ lastOp.op = "apply" /\ lastOp.target = "esp32-nope-9"
    /\ ~kernel["wlan0"].root

\* C8: when a tc invocation that is not an expected failure exits non-zero
\* during apply_policy, the call returns False and the active-policy map is
\* what it was before the call.
C8_FailedApplyKeepsRecord ==
    ( lastOp.op = "apply" /\ lastOp.why = "tc_failed" ) =>
        /\ lastOp.ret = "False"
        /\ ~lastOp.activeChanged

\* ... and a later apply_policy can succeed.
C8_Witness ==
    /\ Applied /\ lastOp.afterFailure
    /\ lastOp.kernelChanged /\ lastOp.activeChanged

\* C9: apply_policy with a policy_type outside the seven network types
\* returns False without raising, issues no tc command and leaves the kernel
\* and the active-policy map unchanged.
C9_TypeUnknown ==
    ( /\ lastOp.op = "apply" /\ lastOp.pol # 0
      /\ Policies[lastOp.pol].policy_type \notin
             {"bandwidth_limit", "bandwidth", "latency_control", "latency",
              "traffic_shaping", "routing_priority", "priority"} ) =>
        /\ lastOp.ret = "False"
        /\ ~lastOp.issued
        /\ ~lastOp.kernelChanged
        /\ ~lastOp.activeChanged

C9_Witness ==
    /\ lastOp.op = "apply" /\ lastOp.pol # 0
    /\ Policies[lastOp.pol].policy_type = "qos_control"
    /\ ~kernel["wlan0"].root

\* C10: no operation of the enforcer (construction, apply_policy,
\* clear_device, clear_all) lets a tc failure escape as an exception.
C10_NeverRaises == lastOp.ret # "raised"

----------------------------------------------------------------------------
(* Threads and the device plane *)

\* C11: a read of the metrics collector (collect_tc_stats,
\* get_active_policies) made while an apply_policy, clear_device or clear_all
\* is in progress meets the enforcer either as that operation found it or as
\* it left it, never in between (the kernel class changed, the active-policy
\* record not yet).
C11_ReadsSeeBeforeOrAfter == ~poll.torn

\* C12: every tc command and every write to the active-policy map made by
\* apply_policy, clear_device and clear_all happens under the enforcer's one
\* lock: a thread that is past "with self._lock" and has not returned is the
\* holder of the lock, so no two threads are there together.
C12_MutationsUnderLock ==
    \A w \in Workers : threads[w].pc \in {"tc", "record", "exit"} => lock = w

\* One thread is between its tc commands and its write to the map while the
\* other waits for the lock.
C12_Witness ==
    \E w, v \in Workers : threads[w].pc = "record" /\ threads[v].pc = "waiting"

----------------------------------------------------------------------------
(* Directives: parse, validate, generate_policies, dispatch *)

\* The directive submitted last and what parse makes of it
Submitted == lastOp.op = "submit"

\* ... and no call of the Device Enforcer came after its dispatch, which
\* found the MQTT session live
SubmittedLive == Submitted /\ devOp.op = "dispatch" /\ devOp.live

LastParsed == Parsed[lastOp.pol]

\* C13: a directive whose type is general, or from which no parameter is
\* extracted, is answered with status invalid and an error, and the store
\* holds no intent of type general and none without parameters.
C13_GeneralOrEmptyRejected ==
    /\ ( /\ Submitted
         /\ LastParsed.type = "general" \/ LastParsed.parameters = EmptyDict ) =>
            response.status = "invalid"
    /\ \A k \in DOMAIN intents :
           intents[k].type # "general" /\ intents[k].parsed.parameters # EmptyDict

\* The latency directives that state a delay of 50 ms for esp32-mhz19-1
\* ('reduce latency to 50ms for ...', 'add latency of 50ms for ...') and
\* the one that states none ('minimize latency for esp32-cam-1')
Latency50Mhz == {Directives[13], Directives[14]}
MinimizeLatencyCam == Directives[15]

\* C14: a stored latency directive that states the delay 50 ms has exactly
\* one policy, a latency_control with delay 50ms and jitter 5ms, and once
\* applied (also when submitted again) exactly one netem qdisc with delay
\* 50ms hangs under the target's class; a latency directive that states no
\* delay has exactly one policy, a traffic_shaping of class low_latency.
C14_LatencyModes ==
    /\ ( Submitted /\ Directives[lastOp.pol] \in Latency50Mhz ) =>
           /\ response.status = "active"
           /\ Len(response.policies) = 1
           /\ response.policies[1].policy_type = "latency_control"
           /\ response.policies[1].parameters = [delay |-> "50ms", jitter |-> "5ms"]
           /\ Cardinality(NetemUnder(kernel, "esp32-mhz19-1")) = 1
           /\ \A q \in NetemUnder(kernel, "esp32-mhz19-1") : q.delay = "50ms"
    /\ ( Submitted /\ Directives[lastOp.pol] = MinimizeLatencyCam ) =>
           /\ response.status = "active"
           /\ Len(response.policies) = 1
           /\ response.policies[1].policy_type = "traffic_shaping"
           /\ response.policies[1].parameters["class"] = "low_latency"

\* The level L of a directive 'set qos level L for ...': the piece that
\* follows "level"
StatedLevel(t) == int([str |-> t[7]])

SetsQosLevel(t) == Len(t) > 6 /\ Lit(t, 1, <<"set", " ", "qos", " ", "level", " ">>)

\* C15: a stored directive 'set qos level L ...' with L in 0..2 has exactly
\* one policy, a qos_control whose mqtt_qos is the integer L, whose
\* reliable_delivery is true exactly when L is 1 or 2, and whose retain is
\* true.
C15_QosPolicy ==
    ( Submitted /\ SetsQosLevel(Directives[lastOp.pol]) ) =>
        /\ response.status = "active"
        /\ Len(response.policies) = 1
        /\ response.policies[1].policy_type = "qos_control"
        /\ response.policies[1].parameters.mqtt_qos = StatedLevel(Directives[lastOp.pol])
        /\ response.policies[1].parameters.reliable_delivery
               = (StatedLevel(Directives[lastOp.pol]).int \in {1, 2})
        /\ response.policies[1].parameters.retain

\* The simulator node that a directive '... for node-K' names last
NamesNode(t) == Len(t) > 2 /\ t[Len(t) - 2] = "node" /\ t[Len(t) - 1] = "-"

NodeNamed(t) == "node-" \o t[Len(t)]

\* C16: when 'set qos level L for node-K' is submitted with the MQTT session
\* live, its policy has target node-K and the message the broker received
\* last is on iot/node-K/control and carries qos L.
C16_NodeTarget ==
    ( /\ SubmittedLive
      /\ SetsQosLevel(Directives[lastOp.pol]) /\ NamesNode(Directives[lastOp.pol]) ) =>
        /\ response.status = "active"
        /\ response.policies[1].target = NodeNamed(Directives[lastOp.pol])
        /\ published # <<>>
        /\ published[Len(published)].topic
               = "iot/" \o NodeNamed(Directives[lastOp.pol]) \o "/control"
        /\ published[Len(published)].payload.qos = StatedLevel(Directives[lastOp.pol])

\* 'prioritize device node-<X>'
PrioritizesNode(t) ==
    Len(t) = 7 /\ Lit(t, 1, <<"prioritize", " ", "device", " ", "node", "-">>)

\* C17: for 'Prioritize device node-<X>' parse returns the type priority and
\* target_device <X>, the text after 'node-', and validate returns
\* (True, 'Valid') for that parse result.
C17_PrioritizeNode ==
    ( Submitted /\ PrioritizesNode(Directives[lastOp.pol]) ) =>
        /\ LastParsed.type = "priority"
        /\ Get(LastParsed.parameters, "target_device", None) = Directives[lastOp.pol][7]
        /\ validate(LastParsed) = [ok |-> TRUE, msg |-> "Valid"]
        /\ response.status = "active" /\ response.parsed = LastParsed

C17_Witness ==
    /\ Submitted /\ PrioritizesNode(Directives[lastOp.pol])
    /\ response.status = "active"
    /\ response.parsed.parameters["target_device"] = "3"

\* '<verb> [device] X': the verb and the device named
VerbOf(t) == IF Lit(t, 1, <<"de", "activate">>) THEN "deactivate" ELSE t[1]

NameOf(t) ==
    LET i == IF VerbOf(t) = "deactivate" THEN 4 ELSE 3
    IN  Join(t, IF t[i] = "device" THEN i + 2 ELSE i, Len(t))

CommandOf(verb) ==
    CASE verb \in {"enable", "start", "activate"} -> "ENABLE"
      [] verb \in {"disable", "stop", "deactivate"} -> "DISABLE"
      [] verb = "reset" -> "RESET"
      [] OTHER -> None

\* C18: a stored directive '<verb> [device] X' has exactly one policy, a
\* device_control with target X and the command of its verb (ENABLE for
\* enable, start, activate; DISABLE for disable, stop, deactivate; RESET for
\* reset); with the MQTT session live, 'reset esp32-mhz19-1' leaves
\* {"command": "RESET"} on imperium/devices/esp32-mhz19-1/control as the
\* message received last.
C18_DeviceControl ==
    ( Submitted /\ CommandOf(VerbOf(Directives[lastOp.pol])) # None ) =>
        /\ response.status = "active"
        /\ Len(response.policies) = 1
        /\ response.policies[1].policy_type = "device_control"
        /\ response.policies[1].target = NameOf(Directives[lastOp.pol])
        /\ response.policies[1].parameters
               = [command |-> CommandOf(VerbOf(Directives[lastOp.pol]))]
        /\ ( SubmittedLive /\ NameOf(Directives[lastOp.pol]) = "esp32-mhz19-1" ) =>
               /\ devOp.grew
               /\ published # <<>>
               /\ published[Len(published)].topic = "imperium/devices/esp32-mhz19-1/control"
               /\ published[Len(published)].payload
                      = [command |-> CommandOf(VerbOf(Directives[lastOp.pol]))]

\* The targets the specification routes to imperium/devices/: esp32-mhz19-*,
\* esp32-env-* and generic mhz19-*
ImperiumTargets == {"esp32-mhz19-1", "esp32-env-1", "mhz19-01"}

\* A DeviceEnforcer.apply_policy that handed a message to the broker
Sent == devOp.op = "apply" /\ devOp.grew

\* C19: the message of an applied device policy, of any type, is published
\* on imperium/devices/<target>/control when the target is an esp32-mhz19-*,
\* esp32-env-* or mhz19-* device and on iot/<target>/control otherwise, with
\* QoS 1 and retain false.
C19_TopicRouting ==
    Sent =>
        /\ published[Len(published)].topic
               = (IF devOp.target \in ImperiumTargets THEN "imperium/devices/" ELSE "iot/")
                     \o devOp.target \o "/control"
        /\ published[Len(published)].qos = 1
        /\ ~published[Len(published)].retain

\* C20: a DeviceEnforcer.apply_policy called while there is no live MQTT
\* session (before a connect() succeeded, or after disconnect()) returns
\* False, whatever the policy type, without raising, and the broker receives
\* no message.
C20_NoSession ==
    ( devOp.op = "apply" /\ ~devOp.live ) =>
        /\ devOp.ret = "False"
        /\ ~devOp.grew

\* A camera policy applied after disconnect(): the connected flag is still
\* set and the handler does not look at it.
C20_Witness ==
    /\ devOp.op = "apply" /\ ~devOp.live /\ connected
    /\ DevicePolicies[devOp.pol].policy_type \in CameraTypes
    /\ devOp.ret = "False"

----------------------------------------------------------------------------
(* Metrics of the device plane, and the policy engine on parsed intents *)

\* C21: every DeviceEnforcer.apply_policy increments
\* ibs_device_enforcement_total exactly once, with policy_type the policy's
\* type, device its target, and status success when the call returned True
\* and failure when it returned False.
C21_CountedOnce ==
    devOp.op = "apply" =>
        devOp.counted =
            << [policy_type |-> DevicePolicies[devOp.pol].policy_type,
                device |-> devOp.target,
                status |-> IF devOp.ret = "True" THEN "success" ELSE "failure"] >>

\* A directive 'limit bandwidth to N<unit> ...' or 'throttle X to N', and
\* the rate it states: N with the unit as tc writes it, mbit when none is
\* written
LimitsBandwidthTo(t) ==
    Len(t) > 6 /\ Lit(t, 1, <<"limit", " ", "bandwidth", " ", "to", " ">>) /\ IsDigits(t[7])
Throttles(t) == Lit(t, 1, <<"throttle", " ">>) /\ IsDigits(t[Len(t)])
StatedRate(t) ==
    IF Throttles(t) THEN t[Len(t)] \o "mbit"
    ELSE t[7] \o ( CASE At(t, 8) \in {"mbps", "mbit"} -> "mbit"
                     [] At(t, 8) \in {"kbps", "kbit"} -> "kbit"
                     [] At(t, 8) \in {"gbps", "gbit"} -> "gbit"
                     [] OTHER -> "mbit" )

\* C22: a stored directive 'limit bandwidth to N<unit> [for X]' or
\* 'throttle X to N' has exactly one policy, a bandwidth_limit whose rate
\* and ceil are both N with the unit normalized (mbps, mbit: Nmbit; kbps,
\* kbit: Nkbit; gbps, gbit: Ngbit; none: Nmbit) and whose burst is 15k.
C22_BandwidthUnits ==
    ( /\ Submitted
      /\ LimitsBandwidthTo(Directives[lastOp.pol]) \/ Throttles(Directives[lastOp.pol]) ) =>
        /\ response.status = "active"
        /\ Len(response.policies) = 1
        /\ response.policies[1].policy_type = "bandwidth_limit"
        /\ response.policies[1].parameters =
               [rate  |-> StatedRate(Directives[lastOp.pol]),
                ceil  |-> StatedRate(Directives[lastOp.pol]),
                burst |-> "15k"]

\* The intent of the engine's last call
Generated == engine.last # 0
LastIntent == EngineIntents[engine.last]

\* C23: generate_policies on a priority intent returns exactly two policies,
\* in this order: a traffic_shaping policy (rate 100mbit, ceil 200mbit,
\* burst 32k, class high_priority) and a routing_priority policy (tos 0x10,
\* priority high), both for the intent's target device, each with an
\* integer priority in 1..9.
C23_PriorityPolicies ==
    ( Generated /\ LastIntent.type = "priority" ) =>
        /\ ~engine.raised
        /\ Len(engine.out) = 2
        /\ engine.out[1].policy_type = "traffic_shaping"
        /\ engine.out[1].parameters =
               [rate |-> "100mbit", ceil |-> "200mbit", burst |-> "32k",
                class |-> "high_priority"]
        /\ engine.out[2].policy_type = "routing_priority"
        /\ engine.out[2].parameters = [tos |-> "0x10", priority |-> "high"]
        /\ \A i \in 1..2 :
               /\ engine.out[i].priority \in 1..9
               /\ Has(LastIntent.parameters, "target_device") =>
                      engine.out[i].target = LastIntent.parameters["target_device"]

\* A priority intent parsed from a directive went through the engine, after
\* another call
C23_Witness ==
    /\ Generated /\ LastIntent.type = "priority" /\ LastIntent # TestCoreIntent
    /\ Has(LastIntent.parameters, "target_device")
    /\ engine.calls = 2 /\ Len(engine.out) = 2

C25_ParseTotal ==
    /\ \A i, j \in DOMAIN intents :
           intents[i].description = intents[j].description =>
               intents[i].parsed = intents[j].parsed
    /\ ( Submitted /\ LastParsed.type # "general" ) => LastParsed.parameters # EmptyDict

\* The ESP32 families in the order of the target cascade, and the first of
\* them that a directive names (0 when it names none); the directives of
\* the model name every ESP32 device with the number 1
CascadeFamilies == <<"audio", "cam", "mhz19", "env">>
NamesFamily(t, family) == Says(t, <<"esp32", "-", family, "-", "1">>)
FirstNamed(t) ==
    LET named == {k \in DOMAIN CascadeFamilies : NamesFamily(t, CascadeFamilies[k])}
    IN  IF named = {} THEN 0 ELSE Min(named)

\* C26: when a directive matches several target patterns, target_device is
\* the target of the first matching pattern in the order esp32-audio-N,
\* esp32-cam-N, esp32-mhz19-N, esp32-env-N, generic mhz19-NN, node X,
\* 'for X': for a directive that names ESP32 devices, the device of the
\* first family named in that order, which no later pattern replaces.
C26_FirstMatchWins ==
    ( Submitted /\ FirstNamed(Directives[lastOp.pol]) # 0 ) =>
        /\ Has(LastParsed.parameters, "target_device")
        /\ LastParsed.parameters["target_device"] =
               "esp32-" \o CascadeFamilies[FirstNamed(Directives[lastOp.pol])] \o "-1"

\* A directive 'set resolution to R for ...', and the resolution the
\* specification gives R: a name, a pixel-height alias (480p: VGA, 720p:
\* HD, 1080p and 'full hd': UXGA) or a WxH form
ResolutionNames == {"QVGA", "VGA", "SVGA", "XGA", "HD", "SXGA", "UXGA"}
SetsResolution(t) == Lit(t, 1, <<"set", " ", "resolution", " ", "to", " ">>)
StatedResolution(t) ==
    CASE Lit(t, 7, <<"uxga", " ">>) -> "UXGA"
      [] Lit(t, 7, <<"1080", "p", " ">>) -> "UXGA"
      [] Lit(t, 7, <<"full", " ", "hd", " ">>) -> "UXGA"
      [] Lit(t, 7, <<"640", "x", "480", " ">>) -> "VGA"

\* C27: a stored camera_resolution directive (a resolution name, a
\* pixel-height alias or a WxH form) has one policy whose resolution is the
\* normalized name, one of QVGA, VGA, SVGA, XGA, HD, SXGA, UXGA (1080p gives
\* UXGA), and with a live session the Device Enforcer publishes
\* {"resolution": name} on iot/<target>/control.
C27_ResolutionNormalized ==
    ( Submitted /\ SetsResolution(Directives[lastOp.pol]) ) =>
        /\ response.status = "active"
        /\ Len(response.policies) = 1
        /\ response.policies[1].policy_type = "camera_resolution"
        /\ response.policies[1].parameters["resolution"] \in ResolutionNames
        /\ response.policies[1].parameters["resolution"]
               = StatedResolution(Directives[lastOp.pol])
        /\ SubmittedLive =>
               /\ devOp.grew
               /\ published[Len(published)].topic
                      = "iot/" \o response.policies[1].target \o "/control"
               /\ published[Len(published)].payload
                      = [resolution |-> StatedResolution(Directives[lastOp.pol])]

\* The quality the specification gives the preset that a directive names
\* ('high quality': 5, 'medium quality': 15, 'low quality': 30), 0 - 1 when
\* it names none
PresetQuality(t) ==
    CASE Says(t, <<"high", " ", "quality">>) -> 5
      [] Says(t, <<"medium", " ", "quality">>) -> 15
      [] Says(t, <<"low", " ", "quality">>) -> 30
      [] OTHER -> 0 - 1

\* C28: a camera_quality intent that the parser produces and validate
\* accepts has exactly one policy, a camera_quality whose quality is an
\* integer in 0..63, and the quality is 5, 15 or 30 when the directive names
\* the preset 'high quality', 'medium quality' or 'low quality'.
C28_QualityClamped ==
    ( Submitted /\ LastParsed.type = "camera_quality" /\ validate(LastParsed).ok ) =>
        /\ response.status = "active"
        /\ Len(response.policies) = 1
        /\ response.policies[1].policy_type = "camera_quality"
        /\ response.policies[1].parameters["quality"] \in 0..63
        /\ PresetQuality(Directives[lastOp.pol]) # 0 - 1 =>
               response.policies[1].parameters["quality"]
                   = PresetQuality(Directives[lastOp.pol])

\* The raw value of a publish_interval intent handed to the engine
RawValue(intent) ==
    CHOOSE v \in {IntervalValues[k] : k \in DOMAIN IntervalValues} :
        intent.parameters["interval_value"] = <<ToString(v)>>

\* v*1000 when v is at most 60 and v otherwise, clamped into 1000..60000
ClampedMs(v) ==
    LET ms == IF v <= 60 THEN v * 1000 ELSE v
    IN  IF ms < 1000 THEN 1000 ELSE IF ms > 60000 THEN 60000 ELSE ms

StoredGauges(pol) ==
    [rate  |-> IF "rate" \in DOMAIN pol.params
               THEN parse_rate_to_bps(pol.params["rate"]) ELSE 0,
     delay |-> IF "delay" \in DOMAIN pol.params
               THEN parse_delay_to_ms(pol.params["delay"]) ELSE 0,
     prio  |-> IF "prio" \in DOMAIN pol.params THEN pol.params["prio"] ELSE 0]

\* The collector is between two cycles, and has completed one
CycleDone == poll.cycles /\ poll.pc = "stats"

----------------------------------------------------------------------------
(* Re-convergence, the shared registry, and the rate limiter *)

\* C31: when apply_policy(p) fails after earlier tc steps of the same call
\* have changed the kernel, a following apply_policy(p) in which every tc
\* step succeeds leaves the kernel state of p's device and its active-policy
\* record as a successful apply_policy(p) without the failure leaves them
\* from the same starting state.
C31_Reconverges ==
    ( lastOp.retried /\ lastOp.why = "ok" ) =>
        /\ lastOp.ret = "True"
        /\ lastOp.wouldBe = {DeviceView(kernel, active_policies, lastOp.target)}

C31_Witness ==
    /\ lastOp.retried /\ lastOp.why = "ok"
    /\ Policies[lastOp.pol].policy_type = "latency_control"
    /\ lastOp.kernelChanged

\* The HTB prio the specification gives for a level
LevelPrio(level) ==
    CASE level = "critical" -> 0 [] level = "high" -> 1 [] level = "medium" -> 4
      [] level = "low" -> 7 [] OTHER -> 4

\* C32: a traffic_shaping, routing_priority or priority policy that carries
\* no rate or ceil, applied with success, leaves the device's class with the
\* rate and the ceil the device's record held before the call (the device
\* defaults where the record held none) and the HTB prio of its level:
\* critical 0, high 1, medium 4, low 7, any other level 4.
C32_KeepsRecordedRate ==
    ( lastOp.op = "level" /\ lastOp.ret = "True" ) =>
        LET info == DEVICE_REGISTRY[lastOp.target]
            cls  == kernel[info.iface].classes
        IN  /\ info.classid \in DOMAIN cls
            /\ cls[info.classid].rate = Get(lastOp.had, "rate", DEFAULT_DEV_RATE)
            /\ cls[info.classid].ceil = Get(lastOp.had, "ceil", DEFAULT_DEV_CEIL)
            /\ cls[info.classid].prio = LevelPrio(lastOp.level)

C32_Witness ==
    /\ lastOp.op = "level" /\ lastOp.ret = "True"
    /\ lastOp.level = "low" /\ lastOp.ptype = "routing_priority"
    /\ Has(lastOp.had, "rate") /\ lastOp.had["rate"] = "2mbit"
    /\ kernel[DEVICE_REGISTRY[lastOp.target].iface]
           .classes[DEVICE_REGISTRY[lastOp.target].classid].rate = "2mbit"

\* The tree of an interface as bring-up leaves it: the HTB root, classes 1:1
\* and 1:99, and for every registered device on the interface its class and
\* a filter that sends its address to the class
BroughtUp(kern, iface) ==
    /\ kern[iface].root
    /\ {1, 99} \subseteq DOMAIN kern[iface].classes
    /\ \A d \in Registered :
           DEVICE_REGISTRY[d].iface = iface =>
               /\ DEVICE_REGISTRY[d].classid \in DOMAIN kern[iface].classes
               /\ \E i \in DOMAIN kern[iface].filters :
                      /\ kern[iface].filters[i].match = KMatchWord(DEVICE_REGISTRY[d].ip)
                      /\ kern[iface].filters[i].flowid = DEVICE_REGISTRY[d].classid

C33_AfterConstruction ==
    ( lastOp.op = "construct" /\ lastOp.ret = "True" /\ lastOp.nominal ) =>
        \A iface \in Interfaces : BroughtUp(kernel, iface)

C33_AfterClearAll ==
    ( /\ lastOp.op = "clear_all" /\ lastOp.nominal
      /\ lastOp'.op = "apply" /\ lastOp'.ret = "True" /\ lastOp'.nominal ) =>
        \A iface \in Interfaces : BroughtUp(kernel', iface)

C33_ClassesKept ==
    ( /\ lastOp'.op = "apply" /\ lastOp'.ret = "True" /\ lastOp'.nominal
      /\ kernel[DEVICE_REGISTRY[lastOp'.target].iface].root ) =>
        LET info == DEVICE_REGISTRY[lastOp'.target]
        IN  \A cid \in DOMAIN kernel[info.iface].classes \ {info.classid} :
                /\ cid \in DOMAIN kernel'[info.iface].classes
                /\ kernel'[info.iface].classes[cid] = kernel[info.iface].classes[cid]

\* C33: with the tool working, after construction, and again after the
\* first successful apply_policy that follows clear_all, every managed
\* interface has the HTB root with classes 1:1 and 1:99 and, for every
\* registered device on it, the device's class and a filter for its address;
\* and an apply_policy on an interface whose root exists leaves every class
\* other than its target's as it was.
C33_TreeBroughtUp ==
    /\ []C33_AfterConstruction
    /\ [][C33_AfterClearAll]_vars
    /\ [][C33_ClassesKept]_vars

\* The startup scan has gone through every container
Started == registry.next > LastContainer

\* C34: once startup is over, whichever containers were found, every
\* class-id of the registry lies in 1..98 (99 is never one), and two entries
\* with the same interface and class-id have the same address.
C34_ClassIdsUnique ==
    Started =>
        \A d \in DOMAIN registry.entries :
            /\ registry.entries[d].classid \in 1..98
            /\ \A e \in DOMAIN registry.entries :
                   ( /\ registry.entries[e].iface = registry.entries[d].iface
                     /\ registry.entries[e].classid = registry.entries[d].classid ) =>
                       registry.entries[e].ip = registry.entries[d].ip

C34_Witness ==
    /\ Started
    /\ {"node-2", "node-10"} \subseteq DOMAIN registry.entries
    /\ "node-1" \notin DOMAIN registry.entries
    /\ registry.entries["node-10"].classid = 40
    /\ registry.entries["node-2"].ip = registry.entries["esp32-audio-1"].ip

\* C35: a request from a whitelisted address to an endpoint decorated with
\* ip_whitelist.check over rate_limiter.limit is not rate limited: it is
\* never answered 429, and it leaves no timestamp in the client's history.
C35_WhitelistBypasses ==
    ( limiter.last.op = "request" /\ limiter.last.whitelisted ) =>
        /\ limiter.last.status # 429
        /\ ~limiter.last.recorded

\* The same, for the status alone
C35_Never429 ==
    ( limiter.last.op = "request" /\ limiter.last.whitelisted ) =>
        limiter.last.status # 429

\* The calls of a client under a limit type that is_rate_limited let
\* through at a time in (s, s + window]
AcceptedIn(client, limit_type, s) ==
    {i \in DOMAIN limiter.accepted :
        /\ limiter.accepted[i].client = client
        /\ limiter.accepted[i].type = limit_type
        /\ limiter.accepted[i].t > s
        /\ limiter.accepted[i].t <= s + limiter.limits[limit_type].window}

\* C39: for every client and limit type, the calls answered is_limited =
\* False within any window of `window` seconds are at most `requests`; and
\* a call answered is_limited = True stores no timestamp: the client's
\* history is what it was, less the times that left the window.
C39_WindowNeverExceeded ==
    /\ \A ip \in ClientIps, limit_type \in LimitTypes, s \in -1..MaxTime :
           Cardinality(AcceptedIn(get_client_id(ip), limit_type, s))
               <= limiter.limits[limit_type].requests
    /\ ( limiter.last.op = "request" /\ limiter.last.is_limited ) =>
           /\ ~limiter.last.recorded
           /\ \E n \in 0..Len(limiter.last.was) :
                  limiter.requests[get_client_id(limiter.last.remote_addr)]
                      = SubSeq(limiter.last.was, n + 1, Len(limiter.last.was))

\* The same under a configuration that gives every limit type one window
C39_EqualWindows ==
    ( \A a, b \in LimitTypes : limiter.limits[a].window = limiter.limits[b].window ) =>
        C39_WindowNeverExceeded

\* clear_device(d) has just run to its end with the tool working
ClearedDevice ==
    /\ lastOp'.op = "clear_device" /\ lastOp'.ret = "True" /\ lastOp'.nominal
    /\ lastOp'.target \in Registered

\* The registered devices that share neither the address nor the class-id of d
Others(d) ==
    {e \in Registered : /\ DEVICE_REGISTRY[e].ip # DEVICE_REGISTRY[d].ip
                        /\ DEVICE_REGISTRY[e].classid # DEVICE_REGISTRY[d].classid}

C36_Frame ==
    ClearedDevice =>
        \A e \in Others(lastOp'.target) :
            DeviceView(kernel', active_policies', e) = DeviceView(kernel, active_policies, e)

\* C36: clear_device(d) leaves the class, the filter, the netem qdisc and
\* the record of every registered device with another address and class-id
\* as they were, whether or not that device has a record.
C36_OtherDevicesUntouched == [][C36_Frame]_vars

\* The same for the devices that have a record
C36_RecordedUntouched ==
    [][ClearedDevice =>
          \A e \in Others(lastOp'.target) \cap DOMAIN active_policies :
              DeviceView(kernel', active_policies', e)
                  = DeviceView(kernel, active_policies, e)]_vars

\* Every device with a record has its class and a filter for its address
Backed(kern, active) ==
    \A d \in DOMAIN active :
        LET info == DEVICE_REGISTRY[d]
        IN  /\ info.classid \in DOMAIN kern[info.iface].classes
            /\ KMatchWord(info.ip) \in FilterMatches(kern[info.iface])

C37_Step ==
    ( /\ lastOp'.op \in {"apply", "clear_device", "clear_all"} /\ lastOp'.nominal
      /\ Backed(kernel, active_policies) ) =>
        Backed(kernel', active_policies')

\* C37: an apply_policy, clear_device or clear_all with the tool working,
\* made in a state where every device with an active-policy record has its
\* class and its filter in the kernel, leaves such a state: so it is after
\* any sequence of them, also when one of two devices that share interface,
\* class-id and address is cleared.
C37_RecordedAreBacked == [][C37_Step]_vars

\* The devices that share interface, class-id and address with another
Sharing ==
    {d \in Registered : \E e \in Registered \ {d} :
        DEVICE_REGISTRY[e] = DEVICE_REGISTRY[d]}

\* The same, clear_device on a device of Sharing left out
C37_UnlessSharedCleared ==
    [][( lastOp'.op = "clear_device" /\ lastOp'.target \in Sharing ) \/ C37_Step]_vars

\* C38: a mapping get_active_policies() returned keeps its devices and the
\* params read through it, whatever apply_policy, clear_device and clear_all
\* calls are made afterwards.
C38_SnapshotStable ==
    snapshot.taken =>
        /\ DOMAIN snapshot.seen = DOMAIN snapshot.at
        /\ \A d \in DOMAIN snapshot.at : snapshot.seen[d] = snapshot.at[d]

\* The same for the set of devices alone
C38_DevicesStable ==
    snapshot.taken => DOMAIN snapshot.seen = DOMAIN snapshot.at

====
